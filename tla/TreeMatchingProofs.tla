------------------------- MODULE TreeMatchingProofs -------------------------
(****************************************************************************)
(* Proofs about TreeMatching, for any set of trees and any configuration:   *)
(* whatever the phases pair, the matching stays one-to-one and keeps to     *)
(* types.                                                                   *)
(****************************************************************************)
EXTENDS TreeMatching, FiniteSetTheorems, SequenceTheorems, TLAPS

Inputs == O \in Trees /\ N \in Trees

(* What each phase hands to the next one. *)
Matching(M) ==
  /\ M \in SUBSET (OldNode \X NewNode)
  /\ \A p, q \in M : p[1] = q[1] <=> p[2] = q[2]
  /\ \A p \in M : O[p[1]].type = N[p[2]].type

IInv == Inputs /\ TypeOK /\ OneToOne /\ SameTypes

Loops == {"entities", "topdown", "labels", "bottomup"}

-----------------------------------------------------------------------------
(* Paths. *)

(* A node is where it is: no other one is at the same place below n. *)
LEMMA SamePlace ==
  ASSUME NEW n \in Seq(Nat), NEW a \in Seq(Nat), NEW b \in Seq(Nat),
         Below(a, n), Below(b, n), From(a, n) = From(b, n)
  PROVE  a = b
<1>1. /\ Len(n) \in Nat /\ Len(a) \in Nat /\ Len(b) \in Nat
      /\ Len(n) <= Len(a) /\ Len(n) <= Len(b)
  BY DEF Below, IsStrictPrefix, IsPrefix
<1>2. \A i \in 1..Len(n) : a[i] = n[i] /\ b[i] = n[i]
  <2> SUFFICES ASSUME NEW i \in 1..Len(n) PROVE a[i] = n[i] /\ b[i] = n[i]
    OBVIOUS
  <2>1. /\ SubSeq(n, 1, Len(n))[i] = n[i]
        /\ SubSeq(a, 1, Len(n))[i] = a[i] /\ SubSeq(b, 1, Len(n))[i] = b[i]
    BY <1>1
  <2> QED BY <2>1 DEF Below, IsStrictPrefix, IsPrefix
<1>3. Len(From(a, n)) = Len(a) - Len(n) /\ Len(From(b, n)) = Len(b) - Len(n)
  BY <1>1 DEF From
<1>4. Len(a) = Len(b)
  BY <1>1, <1>3
<1>5. ASSUME NEW i \in (Len(n) + 1)..Len(a) PROVE a[i] = b[i]
  <2> DEFINE k == i - Len(n)
  <2>1. k \in 1..(Len(a) - Len(n)) /\ Len(n) + k = i
    BY <1>1
  <2>2. From(a, n)[k] = a[Len(n) + k]
    BY <2>1, <1>1 DEF From
  <2>3. From(b, n)[k] = b[Len(n) + k]
    BY <2>1, <1>1, <1>4 DEF From
  <2> QED BY <2>1, <2>2, <2>3
<1>6. \A i \in 1..Len(a) : a[i] = b[i]
  <2> SUFFICES ASSUME NEW i \in 1..Len(a) PROVE a[i] = b[i]
    OBVIOUS
  <2>1. CASE i \in 1..Len(n)
    BY <2>1, <1>2
  <2>2. CASE i \in (Len(n) + 1)..Len(a)
    BY <2>2, <1>5
  <2> QED BY <2>1, <2>2, <1>1
<1> QED BY <1>4, <1>6, SeqEqual

(* A child is one slot longer than its parent. *)
LEMMA ChildSlot ==
  ASSUME NEW n \in Seq(Nat), NEW a \in Seq(Nat), Len(a) = Len(n) + 1, Below(a, n)
  PROVE  /\ Slot(a) \in Nat
         /\ a = Append(n, Slot(a))
         /\ Parent(a) = n
         /\ a # n
BY DEF Below, IsStrictPrefix, IsPrefix, Slot, Parent, Last, Front

(* Siblings stand in the order of their slots. *)
LEMMA SiblingOrder ==
  ASSUME NEW n \in Seq(Nat), NEW i \in Nat, NEW j \in Nat
  PROVE  Before(Append(n, i), Append(n, j)) <=> i < j
<1> DEFINE a == Append(n, i)
           b == Append(n, j)
<1>1. /\ Len(a) = Len(n) + 1 /\ Len(b) = Len(n) + 1
      /\ DOMAIN a = 1..(Len(n) + 1) /\ DOMAIN b = 1..(Len(n) + 1)
      /\ \A k \in 1..Len(n) : a[k] = b[k]
      /\ a[Len(n) + 1] = i /\ b[Len(n) + 1] = j
  OBVIOUS
<1>2. ~IsStrictPrefix(a, b)
  <2>1. ASSUME IsPrefix(a, b) PROVE a = b
    <3>1. SubSeq(a, 1, Len(a))[Len(n) + 1] = i /\ SubSeq(b, 1, Len(a))[Len(n) + 1] = j
      BY <1>1
    <3> QED BY <3>1, <2>1 DEF IsPrefix
  <2> QED BY <2>1 DEF IsStrictPrefix
<1>3. \A k \in 1..(Len(n) + 1) : a[k] < b[k] => k = Len(n) + 1
  BY <1>1
<1> QED BY <1>1, <1>2, <1>3 DEF Before

(* A prefix, place by place. *)
LEMMA PrefixByPlace ==
  ASSUME NEW s \in Seq(Nat), NEW t \in Seq(Nat)
  PROVE  IsPrefix(s, t) <=> Len(s) <= Len(t) /\ \A k \in 1..Len(s) : s[k] = t[k]
<1>1. Len(s) \in Nat /\ Len(t) \in Nat
  OBVIOUS
<1>2. ASSUME Len(s) <= Len(t)
      PROVE  SubSeq(s, 1, Len(s)) = SubSeq(t, 1, Len(s)) <=> \A k \in 1..Len(s) : s[k] = t[k]
  <2>1. /\ SubSeq(s, 1, Len(s)) \in Seq(Nat) /\ SubSeq(t, 1, Len(s)) \in Seq(Nat)
        /\ Len(SubSeq(s, 1, Len(s))) = Len(s) /\ Len(SubSeq(t, 1, Len(s))) = Len(s)
        /\ \A k \in 1..Len(s) : /\ SubSeq(s, 1, Len(s))[k] = s[k]
                                /\ SubSeq(t, 1, Len(s))[k] = t[k]
    BY <1>1, <1>2
  <2> QED BY <2>1, SeqEqual
<1> QED BY <1>2 DEF IsPrefix

(* What is above a child is its parent and what is above that. *)
LEMMA AboveChild ==
  ASSUME NEW n \in Seq(Nat), NEW m \in Seq(Nat), NEW i \in Nat
  PROVE  Below(Append(n, i), m) <=> m = n \/ Below(n, m)
<1> DEFINE c == Append(n, i)
<1>1. /\ c \in Seq(Nat) /\ Len(c) = Len(n) + 1 /\ Len(n) \in Nat /\ Len(m) \in Nat
      /\ \A k \in 1..Len(n) : c[k] = n[k]
  OBVIOUS
<1> HIDE DEF c
<1>2. ASSUME Below(c, m) PROVE m = n \/ Below(n, m)
  <2>1. Len(m) <= Len(c) /\ (\A k \in 1..Len(m) : m[k] = c[k]) /\ m # c
    BY <1>1, <1>2, PrefixByPlace DEF Below, IsStrictPrefix
  <2>2. Len(m) # Len(c)
    BY <1>1, <2>1, SeqEqual
  <2>3. Len(m) <= Len(n) /\ \A k \in 1..Len(m) : m[k] = n[k]
    BY <1>1, <2>1, <2>2
  <2> QED BY <2>3, PrefixByPlace DEF Below, IsStrictPrefix
<1>3. ASSUME m = n \/ Below(n, m) PROVE Below(c, m)
  <2>1. Len(m) <= Len(n) /\ \A k \in 1..Len(m) : m[k] = n[k]
    BY <1>1, <1>3, PrefixByPlace DEF Below, IsStrictPrefix
  <2>2. \A k \in 1..Len(m) : m[k] = c[k]
    <3> SUFFICES ASSUME NEW k \in 1..Len(m) PROVE m[k] = c[k]
      OBVIOUS
    <3>1. k \in 1..Len(n)
      BY <1>1, <2>1
    <3> QED BY <1>1, <2>1, <3>1
  <2>3. Len(m) <= Len(c) /\ m # c
    BY <1>1, <2>1
  <2> QED BY <1>1, <2>2, <2>3, PrefixByPlace DEF Below, IsStrictPrefix
<1> QED BY <1>2, <1>3 DEF c

(* The place of a child below n is that of its parent and then its slot. *)
LEMMA ChildPlace ==
  ASSUME NEW q \in Seq(Nat), NEW n \in Seq(Nat), NEW i \in Nat, n = q \/ Below(n, q)
  PROVE  From(Append(n, i), q) = Append(From(n, q), i)
<1>1. Len(q) \in Nat /\ Len(n) \in Nat /\ Len(q) <= Len(n)
  BY DEF Below, IsStrictPrefix, IsPrefix
<1> DEFINE a == From(Append(n, i), q)
           b == From(n, q)
<1>2. /\ a \in Seq(Nat) /\ Len(a) = Len(n) + 1 - Len(q)
      /\ \A k \in 1..Len(a) : a[k] = Append(n, i)[Len(q) + k]
  BY <1>1 DEF From
<1>3. /\ b \in Seq(Nat) /\ Len(b) = Len(n) - Len(q)
      /\ \A k \in 1..Len(b) : b[k] = n[Len(q) + k]
  BY <1>1 DEF From
<1> HIDE DEF a, b
<1>4. Append(b, i) \in Seq(Nat) /\ Len(Append(b, i)) = Len(a) /\ Len(a) = Len(b) + 1
  <2>1. Append(b, i) \in Seq(Nat) /\ Len(Append(b, i)) = Len(b) + 1
    BY <1>3, AppendProperties
  <2> QED BY <1>1, <1>2, <1>3, <2>1
<1>5. ASSUME NEW k \in 1..Len(a) PROVE a[k] = Append(b, i)[k]
  <2>1. CASE k \in 1..Len(b)
    <3>1. Len(q) + k \in 1..Len(n) /\ b[k] = n[Len(q) + k] /\ a[k] = Append(n, i)[Len(q) + k]
      BY <1>1, <1>2, <1>3, <2>1
    <3>2. Append(n, i)[Len(q) + k] = n[Len(q) + k] /\ Append(b, i)[k] = b[k]
      BY <1>3, <2>1, <3>1
    <3> QED BY <3>1, <3>2
  <2>2. CASE k = Len(b) + 1
    <3>1. Len(q) + k = Len(n) + 1 /\ a[k] = Append(n, i)[Len(q) + k]
      BY <1>1, <1>2, <1>3, <2>2
    <3>2. Append(n, i)[Len(n) + 1] = i /\ Append(b, i)[Len(b) + 1] = i
      BY <1>3
    <3> QED BY <2>2, <3>1, <3>2
  <2>3. Len(b) \in Nat
    BY <1>1, <1>3
  <2> QED BY <1>4, <2>1, <2>2, <2>3
<1>6. a = Append(b, i)
  BY <1>2, <1>4, <1>5, SeqEqual
<1> QED BY <1>6 DEF a, b

(* Where the place leads back to. *)
LEMMA Rejoined ==
  ASSUME NEW q \in Seq(Nat), NEW n \in Seq(Nat), n = q \/ Below(n, q)
  PROVE  From(n, q) \in Seq(Nat) /\ q \o From(n, q) = n
<1>1. Len(q) \in Nat /\ Len(n) \in Nat /\ Len(q) <= Len(n) /\ \A k \in 1..Len(q) : n[k] = q[k]
  BY PrefixByPlace DEF Below, IsStrictPrefix
<1> DEFINE b == From(n, q)
<1>2. /\ b \in Seq(Nat) /\ Len(b) = Len(n) - Len(q)
      /\ \A k \in 1..Len(b) : b[k] = n[Len(q) + k]
  BY <1>1 DEF From
<1> HIDE DEF b
<1>3. q \o b \in Seq(Nat) /\ Len(q \o b) = Len(n)
  BY <1>1, <1>2
<1>4. ASSUME NEW k \in 1..Len(n) PROVE (q \o b)[k] = n[k]
  <2>1. CASE k \in 1..Len(q)
    BY <1>1, <1>2, <2>1
  <2>2. CASE k \notin 1..Len(q)
    <3>1. k - Len(q) \in 1..Len(b) /\ Len(q) + (k - Len(q)) = k
      BY <1>1, <1>2, <2>2
    <3>2. (q \o b)[k] = b[k - Len(q)]
      BY <1>1, <1>2, <2>2, <3>1
    <3> QED BY <1>2, <3>1, <3>2
  <2> QED BY <2>1, <2>2
<1>5. q \o b = n
  BY <1>3, <1>4, SeqEqual
<1> QED BY <1>2, <1>5 DEF b

LEMMA JoinedAppend ==
  ASSUME NEW q \in Seq(Nat), NEW n \in Seq(Nat), NEW i \in Nat
  PROVE  q \o Append(n, i) = Append(q \o n, i)
<1>1. Append(n, i) = n \o <<i>> /\ Append(q \o n, i) = (q \o n) \o <<i>>
  BY AppendIsConcat, ConcatProperties
<1> QED BY <1>1, ConcatAssociative

(* The same of a child that is a node. *)
LEMMA Child ==
  ASSUME NEW n \in Seq(Nat), NEW c \in Seq(Nat), Len(c) = Len(n) + 1, Below(c, n)
  PROVE  /\ Slot(c) \in Nat
         /\ \A m \in Seq(Nat) : Below(c, m) <=> m = n \/ Below(n, m)
         /\ \A q \in Seq(Nat) : n = q \/ Below(n, q) => From(c, q) = Append(From(n, q), Slot(c))
<1>1. PICK i \in Nat : i = Slot(c) /\ c = Append(n, i)
  BY ChildSlot
<1>2. \A m \in Seq(Nat) : Below(Append(n, i), m) <=> m = n \/ Below(n, m)
  BY AboveChild
<1>3. \A q \in Seq(Nat) : n = q \/ Below(n, q) => From(Append(n, i), q) = Append(From(n, q), i)
  BY ChildPlace
<1> QED BY <1>1, <1>2, <1>3

(* A node is nowhere below itself. *)
LEMMA OwnPlace ==
  ASSUME NEW n \in Seq(Nat) PROVE From(n, n) = <<>> /\ ~Below(n, n) /\ n \o From(n, n) = n
<1>1. From(n, n) = <<>>
  BY SubSeqEmpty DEF From
<1> QED BY <1>1, ConcatEmptySeq DEF Below, IsStrictPrefix

(* Nodes with one digest have one type. *)
LEMMA EqualNodes ==
  ASSUME NEW T \in Trees, NEW U \in Trees, NEW n \in DOMAIN T, NEW m \in DOMAIN U,
         SameHash(T, n, U, m)
  PROVE  T[n].type = U[m].type
<1>1. n \in Seq(Nat) /\ m \in Seq(Nat)
  BY TreeAssumption
<1>2. From(n, n) = <<>>
  BY <1>1, OwnPlace
<1>3. m \o From(n, n) = m
  BY <1>1, <1>2, ConcatEmptySeq
<1>4. T[n].type = U[m \o From(n, n)].type
  BY HashAssumption
<1> QED BY <1>3, <1>4

-----------------------------------------------------------------------------
(* What the phases add to a matching. *)

LEMMA NodesAreSequences ==
  ASSUME Inputs
  PROVE  /\ \A o \in OldNode : o \in Seq(Nat)
         /\ \A n \in NewNode : n \in Seq(Nat)
BY TreeAssumption DEF Inputs, OldNode, NewNode

LEMMA FewerPairs ==
  ASSUME NEW M, Matching(M), NEW L \in SUBSET M
  PROVE  Matching(L)
BY DEF Matching

(* One pair of free nodes. *)
LEMMA OneMorePair ==
  ASSUME NEW M, Matching(M), NEW o \in FreeOld(M), NEW n \in FreeNew(M),
         O[o].type = N[n].type
  PROVE  Matching(M \cup {<<o, n>>})
BY DEF Matching, FreeOld, FreeNew, MatchedOld, MatchedNew

(* Any set of pairs of free nodes that is itself a matching. *)
LEMMA MorePairs ==
  ASSUME NEW M, Matching(M), NEW L, Matching(L),
         \A p \in L : p[1] \in FreeOld(M) /\ p[2] \in FreeNew(M)
  PROVE  Matching(M \cup L)
BY DEF Matching, FreeOld, FreeNew, MatchedOld, MatchedNew

(* Two subtrees walked in step. *)
LEMMA SeededMatching ==
  ASSUME Inputs, NEW M, Matching(M), NEW o \in FreeOld(M), NEW n \in FreeNew(M),
         O[o].type = N[n].type
  PROVE  Matching(Seeded(M, o, n))
<1> DEFINE L == {p \in Descendants(O, o) \X Descendants(N, n) :
                   /\ From(p[1], o) = From(p[2], n)
                   /\ p[1] \in FreeOld(M) /\ p[2] \in FreeNew(M)
                   /\ O[p[1]].type = N[p[2]].type}
<1>1. o \in OldNode /\ n \in NewNode /\ o \in Seq(Nat) /\ n \in Seq(Nat)
  BY NodesAreSequences DEF FreeOld, FreeNew
<1>2. ASSUME NEW p \in L, NEW q \in L PROVE p[1] = q[1] <=> p[2] = q[2]
  <2>1. /\ p[1] \in Seq(Nat) /\ q[1] \in Seq(Nat)
        /\ p[2] \in Seq(Nat) /\ q[2] \in Seq(Nat)
    BY NodesAreSequences DEF Descendants, OldNode, NewNode
  <2>2. /\ Below(p[1], o) /\ Below(q[1], o) /\ Below(p[2], n) /\ Below(q[2], n)
        /\ From(p[1], o) = From(p[2], n) /\ From(q[1], o) = From(q[2], n)
    BY DEF Descendants
  <2>3. p[1] = q[1] => p[2] = q[2]
    BY <1>1, <2>1, <2>2, SamePlace
  <2>4. p[2] = q[2] => p[1] = q[1]
    BY <1>1, <2>1, <2>2, SamePlace
  <2> QED BY <2>3, <2>4
<1>3. L \in SUBSET (OldNode \X NewNode)
  BY DEF Descendants, OldNode, NewNode
<1>4. Matching(L)
  BY <1>2, <1>3 DEF Matching
<1>5. \A p \in L : p[1] # o /\ p[2] # n
  BY DEF Descendants, Below, IsStrictPrefix
<1>6. Matching(M \cup L)
  BY <1>4, MorePairs
<1>7. o \in FreeOld(M \cup L) /\ n \in FreeNew(M \cup L)
  BY <1>5 DEF FreeOld, FreeNew, MatchedOld, MatchedNew
<1>8. Matching((M \cup L) \cup {<<o, n>>})
  BY <1>6, <1>7, OneMorePair
<1>9. Seeded(M, o, n) = (M \cup L) \cup {<<o, n>>}
  BY DEF Seeded
<1> QED BY <1>8, <1>9

(* A call and, when they are free, the names it and its partner call. *)
LEMMA CalleesMatching ==
  ASSUME Inputs, Matching(pairs), NEW o \in FreeOld(pairs), NEW n \in FreeNew(pairs),
         O[o].type = N[n].type
  PROVE  Matching(pairs \cup {<<o, n>>} \cup Callees(o, n))
<1>1. o \in OldNode /\ n \in NewNode /\ o \in Seq(Nat) /\ n \in Seq(Nat)
  BY NodesAreSequences DEF FreeOld, FreeNew
<1>2. ASSUME NEW p \in Callees(o, n)
      PROVE  /\ p \in OldNode \X NewNode
             /\ p[1] = Append(o, 1) /\ p[2] = Append(n, 1)
             /\ p[1] # o /\ p[2] # n
             /\ O[p[1]].type = N[p[2]].type
             /\ p[1] \in FreeOld(pairs) /\ p[2] \in FreeNew(pairs)
  <2>1. /\ p[1] \in Children(O, o) /\ p[2] \in Children(N, n)
        /\ Slot(p[1]) = 1 /\ Slot(p[2]) = 1
        /\ O[p[1]].type = N[p[2]].type
        /\ p[1] \in FreeOld(pairs) /\ p[2] \in FreeNew(pairs)
        /\ p \in OldNode \X NewNode
    BY DEF Callees, Children, OldNode, NewNode
  <2>2. p[1] \in Seq(Nat) /\ p[2] \in Seq(Nat)
    BY <2>1, NodesAreSequences
  <2>3. p[1] = Append(o, 1) /\ p[1] # o
    BY <1>1, <2>1, <2>2, ChildSlot DEF Children
  <2>4. p[2] = Append(n, 1) /\ p[2] # n
    BY <1>1, <2>1, <2>2, ChildSlot DEF Children
  <2> QED BY <2>1, <2>3, <2>4
<1>3. Matching(Callees(o, n))
  BY <1>2 DEF Matching
<1>4. Matching(pairs \cup Callees(o, n))
  BY <1>2, <1>3, MorePairs
<1>5. o \in FreeOld(pairs \cup Callees(o, n)) /\ n \in FreeNew(pairs \cup Callees(o, n))
  BY <1>2 DEF FreeOld, FreeNew, MatchedOld, MatchedNew
<1>6. Matching((pairs \cup Callees(o, n)) \cup {<<o, n>>})
  BY <1>4, <1>5, OneMorePair
<1> QED BY <1>6

(* The renames are unique at both of their ends. *)
LEMMA RenamesMatching ==
  ASSUME Matching(pairs)
  PROVE  Matching(pairs \cup Renames)
<1>1. \A p \in RenameCandidates :
        /\ p \in OldNode \X NewNode
        /\ p[1] \in FreeOld(pairs) /\ p[2] \in FreeNew(pairs)
        /\ O[p[1]].type = N[p[2]].type
  BY DEF RenameCandidates, Renaming, FreeOld, FreeNew
<1>2. /\ \A p \in Renames : p \in RenameCandidates
      /\ \A p, q \in Renames : q[1] = p[1] \/ q[2] = p[2] => q = p
  BY DEF Renames
<1>3. Matching(Renames)
  BY <1>1, <1>2 DEF Matching
<1> QED BY <1>1, <1>2, <1>3, MorePairs

(* Of the operators of one node, no two have the same number. *)
LEMMA OrdinalsDiffer ==
  ASSUME NEW T \in Trees, NEW n \in DOMAIN T,
         NEW c \in Operators(T, n), NEW d \in Operators(T, n),
         Ordinal(Operators(T, n), c) = Ordinal(Operators(T, n), d)
  PROVE  c = d
<1> DEFINE S == Operators(T, n)
           Up(e) == {f \in S : Before(f, e)}
<1>1. /\ n \in Seq(Nat) /\ IsFiniteSet(S) /\ c \in S /\ d \in S
      /\ Ordinal(S, c) = Ordinal(S, d)
  BY TreeAssumption, FS_Subset DEF Operators, Children
<1>2. \A e \in S : Slot(e) \in Nat /\ e = Append(n, Slot(e))
  BY TreeAssumption, ChildSlot DEF Operators, Children
<1> HIDE DEF S
<1>3. \A e, f \in S : Before(e, f) <=> Slot(e) < Slot(f)
  <2> SUFFICES ASSUME NEW e \in S, NEW f \in S
               PROVE  Before(e, f) <=> Slot(e) < Slot(f)
    OBVIOUS
  <2>1. Before(Append(n, Slot(e)), Append(n, Slot(f))) <=> Slot(e) < Slot(f)
    BY <1>1, <1>2, SiblingOrder
  <2> QED BY <1>2, <2>1, Zenon
<1>4. ASSUME NEW e \in S, NEW f \in S, Slot(e) < Slot(f) PROVE Ordinal(S, e) # Ordinal(S, f)
  <2>1. Up(e) \in SUBSET Up(f) /\ e \in Up(f) /\ e \notin Up(e)
    BY <1>2, <1>3, <1>4
  <2>2. IsFiniteSet(Up(f))
    BY <1>1, FS_Subset
  <2>3. Cardinality(Up(e)) # Cardinality(Up(f))
    BY <2>1, <2>2, FS_Subset
  <2> QED BY <2>3 DEF Ordinal
<1>5. Slot(c) = Slot(d)
  BY <1>1, <1>2, <1>4
<1> QED BY <1>1, <1>2, <1>5

(* The operators of matched parents, by their number. *)
LEMMA BoundMatching ==
  ASSUME Inputs, NEW M, Matching(M), WithoutOperators(M) = M
  PROVE  Matching(M \cup Bound(M))
<1>1. ASSUME NEW q \in Bound(M)
      PROVE  \E p \in M :
               /\ q[1] \in Operators(O, p[1]) /\ q[2] \in Operators(N, p[2])
               /\ Ordinal(Operators(O, p[1]), q[1]) = Ordinal(Operators(N, p[2]), q[2])
  BY DEF Bound
<1>2. \A q \in Bound(M) :
        /\ q \in OldNode \X NewNode
        /\ IsOperator(O[q[1]]) /\ IsOperator(N[q[2]])
  <2> SUFFICES ASSUME NEW q \in Bound(M)
               PROVE  /\ q \in OldNode \X NewNode
                      /\ IsOperator(O[q[1]]) /\ IsOperator(N[q[2]])
    OBVIOUS
  <2>1. PICK p \in M : q \in Operators(O, p[1]) \X Operators(N, p[2])
    BY DEF Bound
  <2> QED BY <2>1 DEF Operators, Children, OldNode, NewNode
<1>3. /\ \A p \in OldNode : \A c \in Operators(O, p) : Parent(c) = p
      /\ \A p \in NewNode : \A c \in Operators(N, p) : Parent(c) = p
  BY NodesAreSequences, ChildSlot DEF Operators, Children, OldNode, NewNode
<1>4. ASSUME NEW q \in Bound(M), NEW r \in Bound(M), q[1] = r[1] \/ q[2] = r[2]
      PROVE  q[1] = r[1] /\ q[2] = r[2]
  <2>1. PICK p \in M : /\ q[1] \in Operators(O, p[1]) /\ q[2] \in Operators(N, p[2])
                       /\ Ordinal(Operators(O, p[1]), q[1]) = Ordinal(Operators(N, p[2]), q[2])
    BY <1>1
  <2>2. PICK s \in M : /\ r[1] \in Operators(O, s[1]) /\ r[2] \in Operators(N, s[2])
                       /\ Ordinal(Operators(O, s[1]), r[1]) = Ordinal(Operators(N, s[2]), r[2])
    BY <1>1
  <2>3. /\ p[1] \in OldNode /\ s[1] \in OldNode
        /\ p[2] \in NewNode /\ s[2] \in NewNode
    BY DEF Matching
  <2>4. p[1] = s[1] \/ p[2] = s[2]
    BY <1>3, <1>4, <2>1, <2>2, <2>3
  <2>5. p[1] = s[1] /\ p[2] = s[2]
    BY <2>4 DEF Matching
  <2>6. CASE q[1] = r[1]
    <3>1. /\ q[2] \in Operators(N, p[2]) /\ r[2] \in Operators(N, p[2])
          /\ Ordinal(Operators(N, p[2]), q[2]) = Ordinal(Operators(N, p[2]), r[2])
      BY <2>1, <2>2, <2>5, <2>6
    <3>2. q[2] = r[2]
      BY <2>3, <3>1, OrdinalsDiffer DEF Inputs, OldNode, NewNode
    <3> QED BY <2>6, <3>2
  <2>7. CASE q[2] = r[2]
    <3>1. /\ q[1] \in Operators(O, p[1]) /\ r[1] \in Operators(O, p[1])
          /\ Ordinal(Operators(O, p[1]), q[1]) = Ordinal(Operators(O, p[1]), r[1])
      BY <2>1, <2>2, <2>5, <2>7
    <3>2. q[1] = r[1]
      BY <2>3, <3>1, OrdinalsDiffer DEF Inputs, OldNode, NewNode
    <3> QED BY <2>7, <3>2
  <2> QED BY <1>4, <2>6, <2>7
<1>5. Matching(Bound(M))
  BY <1>2, <1>4 DEF Matching, IsOperator
<1>6. \A p \in M : ~IsOperator(O[p[1]]) /\ ~IsOperator(N[p[2]])
  BY DEF WithoutOperators
<1>7. \A q \in Bound(M) : q[1] \in FreeOld(M) /\ q[2] \in FreeNew(M)
  BY <1>2, <1>6 DEF FreeOld, FreeNew, MatchedOld, MatchedNew
<1> QED BY <1>5, <1>7, MorePairs

-----------------------------------------------------------------------------
(* The shapes of a step. *)

LEMMA Chosen ==
  ASSUME NEW S
  PROVE  First(S) \subseteq S /\ Tallest(S) \subseteq S
BY DEF First, Tallest

(* An iteration of a loop hands on a matching. *)
LEMMA VisitStep ==
  ASSUME IInv, todo # {}, NEW o, NEW M, Matching(M), Visit(o, M)
  PROVE  IInv'
BY DEF IInv, Inputs, TypeOK, OneToOne, SameTypes, Matching, Visit, MatchedOld, OldNode, NewNode

(* The end of a phase hands on a matching and the next loop's free nodes. *)
LEMMA EnterStep ==
  ASSUME IInv, NEW next \in Phases, NEW M, Matching(M),
         NEW loop \in SUBSET FreeOld(M), next \notin Loops => loop = {},
         Enter(next, M, loop), renamedCalls' \in SUBSET (OldNode \X NewNode)
  PROVE  IInv'
BY DEF IInv, Inputs, TypeOK, OneToOne, SameTypes, Matching, Enter, Loops, FreeOld, MatchedOld,
       OldNode, NewNode

-----------------------------------------------------------------------------
LEMMA InitIInv == Init => IInv
BY DEF Init, IInv, Inputs, TypeOK, OneToOne, SameTypes, Phases, OldNode, NewNode

(* What the invariant says to a step. *)
LEMMA Hypotheses ==
  ASSUME IInv
  PROVE  /\ Inputs /\ Matching(pairs)
         /\ todo \in SUBSET FreeOld(pairs)
         /\ renamedCalls \in SUBSET (OldNode \X NewNode)
BY DEF IInv, TypeOK, OneToOne, SameTypes, Matching, FreeOld, MatchedOld

LEMMA MatchEntityStep == IInv /\ MatchEntity => IInv'
<1> SUFFICES ASSUME IInv, MatchEntity PROVE IInv'
  OBVIOUS
<1>1. Inputs /\ Matching(pairs) /\ todo \in SUBSET FreeOld(pairs)
  BY Hypotheses
<1>2. PICK o \in First(todo) :
        \/ \E n \in ClosestEntity(o) :
             Visit(o, IF SameHash(O, o, N, n) THEN Seeded(pairs, o, n)
                                              ELSE pairs \cup {<<o, n>>})
        \/ Visit(o, pairs)
  BY DEF MatchEntity
<1>3. o \in FreeOld(pairs) /\ todo # {}
  BY <1>1, Chosen
<1>4. CASE Visit(o, pairs)
  BY <1>1, <1>3, <1>4, VisitStep
<1>5. ASSUME NEW n \in ClosestEntity(o),
             Visit(o, IF SameHash(O, o, N, n) THEN Seeded(pairs, o, n)
                                              ELSE pairs \cup {<<o, n>>})
      PROVE  IInv'
  <2>1. n \in FreeNew(pairs) /\ O[o].type = N[n].type
    BY DEF ClosestEntity, EntityFits
  <2>2. CASE SameHash(O, o, N, n)
    BY <1>1, <1>3, <1>5, <2>1, <2>2, SeededMatching, VisitStep
  <2>3. CASE ~SameHash(O, o, N, n)
    BY <1>1, <1>3, <1>5, <2>1, <2>3, OneMorePair, VisitStep
  <2> QED BY <2>2, <2>3
<1> QED BY <1>2, <1>4, <1>5

LEMMA MatchTopDownStep == IInv /\ MatchTopDown => IInv'
<1> SUFFICES ASSUME IInv, MatchTopDown PROVE IInv'
  OBVIOUS
<1>1. Inputs /\ Matching(pairs) /\ todo \in SUBSET FreeOld(pairs)
  BY Hypotheses
<1>2. PICK o \in Tallest(todo) :
        \/ \E n \in ClosestCopy(o) : Visit(o, Seeded(pairs, o, n))
        \/ Visit(o, pairs)
  BY DEF MatchTopDown
<1>3. o \in FreeOld(pairs) /\ todo # {}
  BY <1>1, Chosen
<1>4. CASE Visit(o, pairs)
  BY <1>1, <1>3, <1>4, VisitStep
<1>5. ASSUME NEW n \in ClosestCopy(o), Visit(o, Seeded(pairs, o, n)) PROVE IInv'
  <2>1. n \in FreeNew(pairs) /\ SameHash(O, o, N, n)
    BY DEF ClosestCopy
  <2>2. O[o].type = N[n].type
    BY <1>1, <1>3, <2>1, EqualNodes DEF Inputs, FreeOld, FreeNew, OldNode, NewNode
  <2> QED BY <1>1, <1>3, <1>5, <2>1, <2>2, SeededMatching, VisitStep
<1> QED BY <1>2, <1>4, <1>5

LEMMA MatchLabelStep == IInv /\ MatchLabel => IInv'
<1> SUFFICES ASSUME IInv, MatchLabel PROVE IInv'
  OBVIOUS
<1>1. Inputs /\ Matching(pairs) /\ todo \in SUBSET FreeOld(pairs)
  BY Hypotheses
<1>2. PICK o \in First(todo) :
        \/ \E n \in CallSlot(o) : Visit(o, pairs \cup {<<o, n>>} \cup Callees(o, n))
        \/ \E n \in ClosestLabel(o) : Visit(o, pairs \cup {<<o, n>>})
        \/ Visit(o, pairs)
  BY DEF MatchLabel
<1>3. o \in FreeOld(pairs) /\ todo # {}
  BY <1>1, Chosen
<1>4. CASE Visit(o, pairs)
  BY <1>1, <1>3, <1>4, VisitStep
<1>5. ASSUME NEW n \in ClosestLabel(o), Visit(o, pairs \cup {<<o, n>>}) PROVE IInv'
  <2>1. n \in FreeNew(pairs) /\ O[o].type = N[n].type
    BY DEF ClosestLabel, LabelFits
  <2> QED BY <1>1, <1>3, <1>5, <2>1, OneMorePair, VisitStep
<1>6. ASSUME NEW n \in CallSlot(o), Visit(o, pairs \cup {<<o, n>>} \cup Callees(o, n))
      PROVE  IInv'
  <2>1. n \in FreeNew(pairs) /\ O[o].type = "call" /\ n \in Calls(N, Parent(n))
    BY DEF CallSlot
  <2>2. O[o].type = N[n].type
    BY <2>1 DEF Calls
  <2> QED BY <1>1, <1>3, <1>6, <2>1, <2>2, CalleesMatching, VisitStep
<1> QED BY <1>2, <1>4, <1>5, <1>6

LEMMA MatchBottomUpStep == IInv /\ MatchBottomUp => IInv'
<1> SUFFICES ASSUME IInv, MatchBottomUp PROVE IInv'
  OBVIOUS
<1>1. Inputs /\ Matching(pairs) /\ todo \in SUBSET FreeOld(pairs)
  BY Hypotheses
<1>2. PICK o \in First(todo) :
        \/ \E n \in MostAlike(o) : Visit(o, pairs \cup {<<o, n>>})
        \/ Visit(o, pairs)
  BY DEF MatchBottomUp
<1>3. o \in FreeOld(pairs) /\ todo # {}
  BY <1>1, Chosen
<1>4. CASE Visit(o, pairs)
  BY <1>1, <1>3, <1>4, VisitStep
<1>5. ASSUME NEW n \in MostAlike(o), Visit(o, pairs \cup {<<o, n>>}) PROVE IInv'
  <2>1. n \in FreeNew(pairs) /\ O[o].type = N[n].type
    BY DEF MostAlike, First, BottomUpFits
  <2> QED BY <1>1, <1>3, <1>5, <2>1, OneMorePair, VisitStep
<1> QED BY <1>2, <1>4, <1>5

(* The passes over the whole list, and the ends of the loops. *)
LEMMA PassStep ==
  ASSUME IInv,
         \/ EntitiesDone \/ SeedRenames \/ TopDownDone \/ PairRoots \/ LabelsDone
         \/ DropOperators \/ BottomUpDone \/ PruneStatements \/ PruneOperators
         \/ BindOperators
  PROVE  IInv'
<1>1. Inputs /\ Matching(pairs) /\ renamedCalls \in SUBSET (OldNode \X NewNode)
  BY Hypotheses
<1>2. CASE EntitiesDone
  BY <1>1, <1>2, EnterStep DEF EntitiesDone, Phases
<1>3. CASE SeedRenames
  <2>1. Matching(pairs \cup Renames)
    BY <1>1, RenamesMatching
  <2> QED BY <1>1, <1>3, <2>1, EnterStep DEF SeedRenames, Phases, Loops
<1>4. CASE TopDownDone
  BY <1>1, <1>4, EnterStep DEF TopDownDone, Phases
<1>5. CASE PairRoots
  <2> DEFINE M == IF O[Root].type = N[Root].type
                       /\ Root \in FreeOld(pairs) /\ Root \in FreeNew(pairs)
                  THEN pairs \cup {<<Root, Root>>} ELSE pairs
  <2>1. Matching(M)
    BY <1>1, OneMorePair
  <2>2. Enter("labels", M, FreeOld(M) \ {Root}) /\ renamedCalls' = renamedCalls
    BY <1>5 DEF PairRoots
  <2> HIDE DEF M
  <2> QED BY <1>1, <2>1, <2>2, EnterStep DEF Phases, Loops
<1>6. CASE LabelsDone
  BY <1>1, <1>6, EnterStep DEF LabelsDone, Phases
<1>7. CASE DropOperators
  <2> DEFINE M == WithoutOperators(pairs)
  <2>1. Matching(M)
    BY <1>1, FewerPairs DEF WithoutOperators
  <2>2. RenamedCalls(M) \in SUBSET (OldNode \X NewNode)
    BY <2>1 DEF RenamedCalls, Matching
  <2>3. /\ Enter("bottomup", M, {n \in FreeOld(M) : ~IsLeaf(O, n)})
        /\ renamedCalls' = RenamedCalls(M)
    BY <1>7 DEF DropOperators
  <2> HIDE DEF M
  <2> QED BY <1>1, <2>1, <2>2, <2>3, EnterStep DEF Phases, Loops
<1>8. CASE BottomUpDone
  BY <1>1, <1>8, EnterStep DEF BottomUpDone, Phases
<1>9. CASE PruneStatements
  <2>1. Matching({p \in pairs : StatementCoherent(pairs, p)})
    BY <1>1, FewerPairs
  <2> QED BY <1>1, <1>9, <2>1, EnterStep DEF PruneStatements, Phases
<1>10. CASE PruneOperators
  <2>1. Matching({p \in pairs : AnchoredAlike(pairs, p)})
    BY <1>1, FewerPairs
  <2> QED BY <1>1, <1>10, <2>1, EnterStep DEF PruneOperators, Phases
<1>11. CASE BindOperators
  <2> DEFINE M == WithoutOperators(pairs)
  <2>1. Matching(M) /\ WithoutOperators(M) = M
    BY <1>1, FewerPairs DEF WithoutOperators
  <2>2. Matching(M \cup Bound(M))
    BY <1>1, <2>1, BoundMatching
  <2> QED BY <1>1, <1>11, <2>2, EnterStep DEF BindOperators, Phases
<1> QED BY <1>2, <1>3, <1>4, <1>5, <1>6, <1>7, <1>8, <1>9, <1>10, <1>11

LEMMA StepIInv == IInv /\ [Next]_vars => IInv'
<1> SUFFICES ASSUME IInv, [Next]_vars PROVE IInv'
  OBVIOUS
<1>1. CASE UNCHANGED vars
  BY <1>1 DEF vars, IInv, Inputs, TypeOK, OneToOne, SameTypes, OldNode, NewNode
<1>2. CASE Next
  <2>1. CASE Matched
    BY <1>1, <2>1 DEF Matched
  <2> QED
    BY <1>2, <2>1, PassStep, MatchEntityStep, MatchTopDownStep, MatchLabelStep, MatchBottomUpStep
    DEF Next
<1> QED BY <1>1, <1>2

(* In every phase the variables keep their types; in particular a loop      *)
(* never comes to a node that a seed paired after the loop began.           *)
THEOREM TypeCorrect == Spec => []TypeOK
<1>1. Spec => []IInv
  BY InitIInv, StepIInv, PTL DEF Spec
<1>2. IInv => TypeOK
  BY DEF IInv
<1> QED BY <1>1, <1>2, PTL

(* No phase of the matcher pairs a node twice.                              *)
THEOREM MatchingIsOneToOne == Spec => []OneToOne
<1>1. Spec => []IInv
  BY InitIInv, StepIInv, PTL DEF Spec
<1>2. IInv => OneToOne
  BY DEF IInv
<1> QED BY <1>1, <1>2, PTL

(* Only nodes of one type correspond.                                       *)
THEOREM MatchingKeepsTypes == Spec => []SameTypes
<1>1. Spec => []IInv
  BY InitIInv, StepIInv, PTL DEF Spec
<1>2. IInv => SameTypes
  BY DEF IInv
<1> QED BY <1>1, <1>2, PTL

(* In the matching that is handed on, an operator is paired under its       *)
(* parent's pair: whatever the phases before paired by an operator's text   *)
(* has been dropped.                                                        *)
THEOREM OperatorsAreBound == Spec => []OperatorsFollowParents
<1>1. Init => OperatorsFollowParents
  BY DEF Init, OperatorsFollowParents
<1>2. IInv /\ OperatorsFollowParents /\ [Next]_vars => OperatorsFollowParents'
  <2> SUFFICES ASSUME IInv, OperatorsFollowParents, [Next]_vars, phase' = "matched"
               PROVE  \A p \in pairs' :
                        IsOperator(O'[p[1]]) => <<Parent(p[1]), Parent(p[2])>> \in pairs'
    BY DEF OperatorsFollowParents
  <2>1. CASE BindOperators
    <3> DEFINE M == WithoutOperators(pairs)
    <3>1. pairs' = M \cup Bound(M) /\ O' = O
      BY <2>1 DEF BindOperators, Enter
    <3>2. Inputs /\ Matching(M)
      BY Hypotheses, FewerPairs DEF WithoutOperators
    <3>3. \A p \in M : ~IsOperator(O[p[1]])
      BY DEF WithoutOperators
    <3>4. ASSUME NEW q \in Bound(M) PROVE <<Parent(q[1]), Parent(q[2])>> \in M
      <4>1. PICK p \in M : q \in Operators(O, p[1]) \X Operators(N, p[2])
        BY DEF Bound
      <4>2. /\ p \in OldNode \X NewNode
            /\ q[1] \in Children(O, p[1]) /\ q[2] \in Children(N, p[2])
        BY <3>2, <4>1 DEF Operators, Matching
      <4>3. Parent(q[1]) = p[1] /\ Parent(q[2]) = p[2]
        BY <3>2, <4>2, NodesAreSequences, ChildSlot DEF Children, OldNode, NewNode
      <4> QED BY <4>1, <4>2, <4>3
    <3> HIDE DEF M
    <3> QED BY <3>1, <3>3, <3>4
  <2>2. CASE UNCHANGED vars
    BY <2>2 DEF vars, OperatorsFollowParents
  <2>3. CASE Matched
    BY <2>3 DEF Matched, vars, OperatorsFollowParents
  <2>4. CASE \/ MatchEntity \/ MatchTopDown \/ MatchLabel \/ MatchBottomUp
    BY <2>4 DEF MatchEntity, MatchTopDown, MatchLabel, MatchBottomUp, Visit
  <2>5. CASE \/ EntitiesDone \/ SeedRenames \/ TopDownDone \/ PairRoots \/ LabelsDone
             \/ DropOperators \/ BottomUpDone \/ PruneStatements \/ PruneOperators
    BY <2>5 DEF EntitiesDone, SeedRenames, TopDownDone, PairRoots, LabelsDone, DropOperators,
                BottomUpDone, PruneStatements, PruneOperators, Enter
  <2> QED BY <2>1, <2>2, <2>3, <2>4, <2>5 DEF Next
<1> QED BY <1>1, <1>2, InitIInv, StepIInv, PTL DEF Spec

-----------------------------------------------------------------------------
(* Scopes. *)

(* A child of what is no entity lies in the entity its parent lies in. *)
LEMMA ChildScope ==
  ASSUME NEW T \in Trees, NEW n \in DOMAIN T, ~IsNamedEntity(T[n]), NEW c \in Children(T, n)
  PROVE  EnclosingEntity(T, c) = EnclosingEntity(T, n)
<1> DEFINE Around(d) == {m \in Ancestors(T, d) : IsNamedEntity(T[m])}
<1>1. \A m \in DOMAIN T : m \in Seq(Nat)
  BY TreeAssumption
<1>2. \A m \in DOMAIN T : Below(c, m) <=> m = n \/ Below(n, m)
  BY <1>1, Child DEF Children
<1>3. Around(c) = Around(n)
  BY <1>2 DEF Ancestors
<1> QED BY <1>3 DEF EnclosingEntity

(* Nothing is above the root. *)
LEMMA NoneAboveRoot ==
  ASSUME NEW T \in Trees
  PROVE  EnclosingEntity(T, Root) = {}
<1>1. \A m \in DOMAIN T : ~Below(Root, m)
  BY TreeAssumption, EmptySeq DEF Below, IsStrictPrefix, IsPrefix, Root
<1> QED BY <1>1 DEF EnclosingEntity, Innermost, Ancestors

LEMMA EntitiesAreNodes ==
  ASSUME NEW T, NEW n
  PROVE  \A e \in EnclosingEntity(T, n) : e \in DOMAIN T /\ IsNamedEntity(T[e])
BY DEF EnclosingEntity, Innermost, Ancestors

(* More pairs take nothing out of scope. *)
LEMMA ScopeGrows ==
  ASSUME NEW M, NEW L, M \subseteq L, NEW p, InScope(M, p)
  PROVE  InScope(L, p)
BY DEF InScope, SameScope, InEqualSubtrees

Scoped(M) == \A p \in M : InScope(M, p)

LEMMA OneMoreScoped ==
  ASSUME NEW M, Scoped(M), NEW L,
         \A p \in L : IsNamedEntity(O[p[1]]) \/ SameScope(M, p[1], p[2])
                        \/ InEqualSubtrees(M \cup L, p)
  PROVE  Scoped(M \cup L)
<1> SUFFICES ASSUME NEW p \in M \cup L PROVE InScope(M \cup L, p)
  BY DEF Scoped
<1>1. CASE p \in M
  BY <1>1, ScopeGrows DEF Scoped
<1>2. CASE p \in L
  <2>1. CASE IsNamedEntity(O[p[1]]) \/ SameScope(M, p[1], p[2])
    BY <2>1, ScopeGrows DEF InScope
  <2>2. CASE InEqualSubtrees(M \cup L, p)
    BY <2>2 DEF InScope
  <2> QED BY <1>2, <2>1, <2>2
<1> QED BY <1>1, <1>2

LEMMA OnePairScoped ==
  ASSUME NEW M, Scoped(M), NEW o, NEW n, IsNamedEntity(O[o]) \/ SameScope(M, o, n)
  PROVE  Scoped(M \cup {<<o, n>>})
<1>1. \A p \in {<<o, n>>} : IsNamedEntity(O[p[1]]) \/ SameScope(M, p[1], p[2])
  <2> SUFFICES IsNamedEntity(O[<<o, n>>[1]]) \/ SameScope(M, <<o, n>>[1], <<o, n>>[2])
    BY Zenon
  <2>1. <<o, n>>[1] = o /\ <<o, n>>[2] = n
    OBVIOUS
  <2> QED BY <2>1
<1> QED BY <1>1, OneMoreScoped

(* Two equal subtrees walked in step. *)
LEMMA SeededScoped ==
  ASSUME Inputs, NEW M, Scoped(M), NEW o \in OldNode, NEW n \in NewNode, SameHash(O, o, N, n)
  PROVE  Scoped(Seeded(M, o, n))
<1> DEFINE K == {p \in Descendants(O, o) \X Descendants(N, n) :
                   /\ From(p[1], o) = From(p[2], n)
                   /\ p[1] \in FreeOld(M) /\ p[2] \in FreeNew(M)
                   /\ O[p[1]].type = N[p[2]].type}
           L == {<<o, n>>} \cup K
<1>1. \A p \in K : /\ Below(p[1], o) /\ Below(p[2], n)
                   /\ From(p[1], o) = From(p[2], n)
  BY DEF Descendants
<1>2. From(o, o) = From(n, n)
  BY NodesAreSequences, OwnPlace
<1>3. Seeded(M, o, n) = M \cup L
  BY DEF Seeded
<1> HIDE DEF K
<1>4. <<o, n>> \in M \cup L /\ <<o, n>>[1] = o /\ <<o, n>>[2] = n
  OBVIOUS
<1>5. \A p \in L : InEqualSubtrees(M \cup L, p)
  BY <1>1, <1>2, <1>4 DEF InEqualSubtrees
<1> QED BY <1>3, <1>5, OneMoreScoped

(* The same child of two nodes in scope that are no entities is in scope. *)
LEMMA ChildrenScoped ==
  ASSUME Inputs, NEW M, M \in SUBSET (OldNode \X NewNode), NEW o \in OldNode, NEW n \in NewNode,
         InScope(M, <<o, n>>), ~IsNamedEntity(O[o]), ~IsNamedEntity(N[n]),
         NEW c \in Children(O, o), NEW d \in Children(N, n),
         InEqualSubtrees(M, <<o, n>>) => Slot(c) = Slot(d)
  PROVE  InScope(M, <<c, d>>)
<1>1. /\ o \in Seq(Nat) /\ n \in Seq(Nat) /\ O \in Trees /\ N \in Trees
      /\ \A q \in M : q[1] \in Seq(Nat) /\ q[2] \in Seq(Nat)
  BY NodesAreSequences DEF Inputs
<1>2. /\ c \in Seq(Nat) /\ Len(c) = Len(o) + 1 /\ Below(c, o)
      /\ d \in Seq(Nat) /\ Len(d) = Len(n) + 1 /\ Below(d, n)
  BY <1>1, NodesAreSequences DEF Children, OldNode, NewNode
<1>3. CASE SameScope(M, o, n)
  <2>1. EnclosingEntity(O, c) = EnclosingEntity(O, o) /\ EnclosingEntity(N, d) = EnclosingEntity(N, n)
    BY <1>1, ChildScope DEF OldNode, NewNode
  <2> QED BY <1>3, <2>1 DEF InScope, SameScope
<1>4. CASE InEqualSubtrees(M, <<o, n>>)
  <2>1. PICK q \in M : /\ SameHash(O, q[1], N, q[2])
                       /\ <<o, n>> = q \/ (Below(o, q[1]) /\ Below(n, q[2]))
                       /\ From(o, q[1]) = From(n, q[2])
    BY <1>4 DEF InEqualSubtrees
  <2>2. /\ q[1] \in Seq(Nat) /\ q[2] \in Seq(Nat)
    BY <1>1, <2>1
  <2>3. (o = q[1] \/ Below(o, q[1])) /\ (n = q[2] \/ Below(n, q[2]))
    BY <2>1
  <2>4. Below(c, q[1]) /\ From(c, q[1]) = Append(From(o, q[1]), Slot(c))
    <3>1. o \in Seq(Nat)
      BY <1>1
    <3> QED BY <3>1, <1>2, <2>2, <2>3, Child
  <2>5. Below(d, q[2]) /\ From(d, q[2]) = Append(From(n, q[2]), Slot(d))
    <3>1. n \in Seq(Nat)
      BY <1>1
    <3> QED BY <3>1, <1>2, <2>2, <2>3, Child
  <2>6. From(c, q[1]) = From(d, q[2])
    BY <1>4, <2>1, <2>4, <2>5
  <2> QED BY <2>1, <2>4, <2>5, <2>6 DEF InScope, InEqualSubtrees
<1> QED BY <1>3, <1>4 DEF InScope

(* The one call of a statement and the one call of its partner. *)
LEMMA CallsScoped ==
  ASSUME Inputs, Matching(pairs), Scoped(pairs), NEW o \in OldNode, NEW n \in CallSlot(o)
  PROVE  InScope(pairs, <<o, n>>)
<1> DEFINE P == Parent(o)
           Q == Parent(n)
<1>1. /\ <<P, Q>> \in pairs /\ P \in OldNode /\ Q \in NewNode
      /\ O[P].type \in CallStatement /\ N[Q].type \in CallStatement
      /\ o \in Calls(O, P) /\ n \in Calls(N, Q) /\ Calls(N, Q) = {n}
      /\ O \in Trees /\ N \in Trees
  BY DEF CallSlot, Matching, Inputs
<1> HIDE DEF P, Q
<1>2. /\ o \in Children(O, P) /\ n \in Children(N, Q) /\ O[o].type = "call"
      /\ P \in Seq(Nat) /\ Q \in Seq(Nat) /\ o \in Seq(Nat) /\ n \in Seq(Nat)
  BY <1>1, NodesAreSequences DEF Calls, Children, OldNode, NewNode
<1>3. /\ Len(o) = Len(P) + 1 /\ Below(o, P) /\ Slot(o) \in Nat
      /\ Len(n) = Len(Q) + 1 /\ Below(n, Q)
  BY <1>2, ChildSlot DEF Children
<1>4. ~IsNamedEntity(O[P]) /\ ~IsNamedEntity(N[Q])
  BY <1>1 DEF IsNamedEntity, NamedEntity, CallStatement
<1>5. ASSUME InEqualSubtrees(pairs, <<P, Q>>) PROVE Slot(o) = Slot(n)
  <2>1. PICK q \in pairs : /\ SameHash(O, q[1], N, q[2])
                           /\ <<P, Q>> = q \/ (Below(P, q[1]) /\ Below(Q, q[2]))
                           /\ From(P, q[1]) = From(Q, q[2])
    BY <1>5 DEF InEqualSubtrees
  <2>2. /\ q[1] \in OldNode /\ q[2] \in NewNode /\ q[1] \in Seq(Nat) /\ q[2] \in Seq(Nat)
        /\ P = q[1] \/ Below(P, q[1])
    BY <2>1, NodesAreSequences DEF Matching
  <2>3. Q = q[2] \/ Below(Q, q[2])
    BY <2>1
  <2> DEFINE twin == q[2] \o From(o, q[1])
  <2>4. Below(o, q[1])
    BY <1>2, <1>3, <2>2, Child
  <2>5. twin \in NewNode /\ N[twin].type = "call"
    BY <1>1, <1>2, <2>1, <2>2, <2>4, HashAssumption DEF Descendants, OldNode, NewNode
  <2>6. twin = Append(Q, Slot(o))
    <3>1. From(o, q[1]) = Append(From(Q, q[2]), Slot(o))
      BY <1>2, <1>3, <2>1, <2>2, Child
    <3>2. From(Q, q[2]) \in Seq(Nat) /\ q[2] \o From(Q, q[2]) = Q
      BY <1>2, <2>2, <2>3, Rejoined
    <3>3. q[2] \o Append(From(Q, q[2]), Slot(o)) = Append(q[2] \o From(Q, q[2]), Slot(o))
      BY <1>3, <2>2, <3>2, JoinedAppend
    <3> QED BY <3>1, <3>2, <3>3
  <2> HIDE DEF twin
  <2>7. twin \in Children(N, Q)
    <3>1. Below(twin, Q)
      BY <1>2, <1>3, <2>6, AboveChild
    <3>2. Len(twin) = Len(Q) + 1
      BY <1>2, <1>3, <2>6, AppendProperties
    <3> QED BY <2>5, <3>1, <3>2 DEF Children, NewNode
  <2>8. twin = n
    BY <1>1, <2>5, <2>7 DEF Calls
  <2>9. Last(Append(Q, Slot(o))) = Slot(o)
    BY <1>2, <1>3, AppendProperties DEF Last
  <2> QED BY <2>6, <2>8, <2>9 DEF Slot
<1>6. InScope(pairs, <<P, Q>>)
  BY <1>1 DEF Scoped
<1> QED BY <1>1, <1>2, <1>4, <1>5, <1>6, ChildrenScoped DEF Matching

(* An iteration of a loop, or the end of a phase, hands on what is in scope. *)
LEMMA HandedOn ==
  ASSUME NEW M, Scoped(M), pairs' = M, O' = O, N' = N
  PROVE  InternalsStayInScope'
<1>1. \A p : InScope(M, p) => InScope(pairs, p)'
  BY DEF InScope, SameScope, InEqualSubtrees
<1> QED BY <1>1 DEF Scoped, InternalsStayInScope

LEMMA MatchEntityScoped ==
  ASSUME IInv, Scoped(pairs), MatchEntity
  PROVE  InternalsStayInScope'
<1>1. Inputs /\ Matching(pairs) /\ todo \in SUBSET FreeOld(pairs)
  BY Hypotheses
<1>2. PICK o \in todo :
        \/ \E n \in ClosestEntity(o) :
             Visit(o, IF SameHash(O, o, N, n) THEN Seeded(pairs, o, n)
                                              ELSE pairs \cup {<<o, n>>})
        \/ Visit(o, pairs)
  BY Chosen DEF MatchEntity
<1>3. CASE Visit(o, pairs)
  BY <1>3, HandedOn DEF Visit
<1>4. ASSUME NEW n \in ClosestEntity(o),
             Visit(o, IF SameHash(O, o, N, n) THEN Seeded(pairs, o, n)
                                              ELSE pairs \cup {<<o, n>>})
      PROVE  InternalsStayInScope'
  <2>1. /\ n \in NewNode /\ o \in OldNode
        /\ O[o].type = N[n].type /\ IsNamedEntity(N[n])
    BY <1>1 DEF ClosestEntity, EntityFits, FreeNew, FreeOld
  <2>2. CASE SameHash(O, o, N, n)
    BY <1>1, <1>4, <2>1, <2>2, SeededScoped, HandedOn DEF Visit
  <2>3. CASE ~SameHash(O, o, N, n)
    <3>1. Scoped(pairs \cup {<<o, n>>})
      BY <2>1, OnePairScoped DEF IsNamedEntity
    <3> QED BY <1>4, <2>3, <3>1, HandedOn DEF Visit
  <2> QED BY <2>2, <2>3
<1> QED BY <1>2, <1>3, <1>4

LEMMA MatchTopDownScoped ==
  ASSUME IInv, Scoped(pairs), MatchTopDown
  PROVE  InternalsStayInScope'
<1>1. Inputs /\ Matching(pairs) /\ todo \in SUBSET FreeOld(pairs)
  BY Hypotheses
<1>2. PICK o \in todo :
        \/ \E n \in ClosestCopy(o) : Visit(o, Seeded(pairs, o, n))
        \/ Visit(o, pairs)
  BY Chosen DEF MatchTopDown
<1>3. CASE Visit(o, pairs)
  BY <1>3, HandedOn DEF Visit
<1>4. ASSUME NEW n \in ClosestCopy(o), Visit(o, Seeded(pairs, o, n))
      PROVE  InternalsStayInScope'
  <2>1. n \in NewNode /\ o \in OldNode /\ SameHash(O, o, N, n)
    BY <1>1 DEF ClosestCopy, FreeNew, FreeOld
  <2> QED BY <1>1, <1>4, <2>1, SeededScoped, HandedOn DEF Visit
<1> QED BY <1>2, <1>3, <1>4

LEMMA MatchLabelScoped ==
  ASSUME IInv, Scoped(pairs), MatchLabel
  PROVE  InternalsStayInScope'
<1>1. /\ Inputs /\ Matching(pairs) /\ todo \in SUBSET FreeOld(pairs)
      /\ pairs \in SUBSET (OldNode \X NewNode)
  BY Hypotheses DEF Matching
<1>2. PICK o \in todo :
        \/ \E n \in CallSlot(o) : Visit(o, pairs \cup {<<o, n>>} \cup Callees(o, n))
        \/ \E n \in ClosestLabel(o) : Visit(o, pairs \cup {<<o, n>>})
        \/ Visit(o, pairs)
  BY Chosen DEF MatchLabel
<1>3. CASE Visit(o, pairs)
  BY <1>3, HandedOn DEF Visit
<1>4. ASSUME NEW n \in ClosestLabel(o), Visit(o, pairs \cup {<<o, n>>})
      PROVE  InternalsStayInScope'
  <2>1. IsNamedEntity(O[o]) \/ SameScope(pairs, o, n)
    BY DEF ClosestLabel, LabelFits
  <2>2. Scoped(pairs \cup {<<o, n>>})
    BY <2>1, OnePairScoped
  <2> QED BY <1>4, <2>2, HandedOn DEF Visit
<1>5. ASSUME NEW n \in CallSlot(o), Visit(o, pairs \cup {<<o, n>>} \cup Callees(o, n))
      PROVE  InternalsStayInScope'
  <2>1. /\ o \in OldNode /\ n \in NewNode
        /\ O[o].type = "call" /\ n \in Calls(N, Parent(n))
    BY <1>1 DEF CallSlot, FreeNew, FreeOld
  <2>2. ~IsNamedEntity(O[o]) /\ ~IsNamedEntity(N[n])
    BY <2>1 DEF Calls, IsNamedEntity, NamedEntity
  <2>3. InScope(pairs, <<o, n>>)
    BY <1>1, <2>1, CallsScoped
  <2> DEFINE L == {<<o, n>>} \cup Callees(o, n)
  <2>4. InScope(pairs \cup L, <<o, n>>)
    BY <2>3, ScopeGrows
  <2>5. ASSUME NEW p \in Callees(o, n) PROVE InScope(pairs, p)
    <3>1. /\ p[1] \in Children(O, o) /\ p[2] \in Children(N, n) /\ Slot(p[1]) = Slot(p[2])
          /\ p = <<p[1], p[2]>>
      BY DEF Callees
    <3>2. InScope(pairs, <<p[1], p[2]>>)
      BY <1>1, <2>1, <2>2, <2>3, <3>1, ChildrenScoped
    <3> QED BY <3>1, <3>2
  <2>6. Scoped(pairs \cup L)
    BY <2>4, <2>5, ScopeGrows DEF Scoped
  <2>7. pairs' = pairs \cup L /\ O' = O /\ N' = N
    BY <1>5 DEF Visit
  <2> HIDE DEF L
  <2> QED BY <2>6, <2>7, HandedOn
<1> QED BY <1>2, <1>3, <1>4, <1>5

LEMMA MatchBottomUpScoped ==
  ASSUME IInv, Scoped(pairs), MatchBottomUp
  PROVE  InternalsStayInScope'
<1>1. PICK o \in todo :
        \/ \E n \in MostAlike(o) : Visit(o, pairs \cup {<<o, n>>})
        \/ Visit(o, pairs)
  BY Chosen DEF MatchBottomUp
<1>2. CASE Visit(o, pairs)
  BY <1>2, HandedOn DEF Visit
<1>3. ASSUME NEW n \in MostAlike(o), Visit(o, pairs \cup {<<o, n>>})
      PROVE  InternalsStayInScope'
  <2>1. SameScope(pairs, o, n)
    BY DEF MostAlike, First, BottomUpFits
  <2>2. Scoped(pairs \cup {<<o, n>>})
    BY <2>1, OnePairScoped
  <2> QED BY <1>3, <2>2, HandedOn DEF Visit
<1> QED BY <1>1, <1>2, <1>3

(* What is not an operator does not depend on the pairs of operators: they  *)
(* are no scope, and nothing lies below them.                               *)
LEMMA WithoutOperatorsScoped ==
  ASSUME Inputs, Matching(pairs), Scoped(pairs)
  PROVE  Scoped(WithoutOperators(pairs))
<1> DEFINE M == WithoutOperators(pairs)
<1> SUFFICES ASSUME NEW p \in M PROVE InScope(M, p)
  BY DEF Scoped
<1>1. p \in pairs /\ ~IsOperator(O[p[1]]) /\ InScope(pairs, p) /\ M \subseteq pairs
  BY DEF WithoutOperators, Scoped
<1>2. ASSUME SameScope(pairs, p[1], p[2]) PROVE SameScope(M, p[1], p[2])
  <2>1. /\ \A e \in EnclosingEntity(O, p[1]) : ~IsOperator(O[e])
        /\ \A f \in EnclosingEntity(N, p[2]) : ~IsOperator(N[f])
    BY EntitiesAreNodes DEF IsNamedEntity, NamedEntity, IsOperator, OperatorType
  <2> QED BY <1>2, <2>1 DEF SameScope, WithoutOperators
<1>3. ASSUME InEqualSubtrees(pairs, p) PROVE InEqualSubtrees(M, p)
  <2>1. PICK q \in pairs : /\ SameHash(O, q[1], N, q[2])
                           /\ p = q \/ (Below(p[1], q[1]) /\ Below(p[2], q[2]))
                           /\ From(p[1], q[1]) = From(p[2], q[2])
    BY <1>3 DEF InEqualSubtrees
  <2>2. /\ q[1] \in OldNode /\ q[2] \in NewNode /\ p[1] \in OldNode
        /\ O[q[1]].type = N[q[2]].type
    BY <1>1 DEF Matching
  <2>3. ~IsOperator(O[q[1]])
    <3>1. IsOperator(O[q[1]]) => ~Below(p[1], q[1])
      BY <2>2, TreeAssumption DEF Inputs, OldNode, Descendants
    <3> QED BY <1>1, <2>1, <3>1
  <2>4. q \in M
    BY <2>2, <2>3 DEF WithoutOperators, IsOperator
  <2> QED BY <2>1, <2>4 DEF InEqualSubtrees
<1> QED BY <1>1, <1>2, <1>3 DEF InScope

LEMMA PassScoped ==
  ASSUME IInv, Scoped(pairs),
         \/ EntitiesDone \/ SeedRenames \/ TopDownDone \/ PairRoots \/ LabelsDone
         \/ DropOperators \/ BottomUpDone
  PROVE  InternalsStayInScope'
<1>1. Inputs /\ Matching(pairs)
  BY Hypotheses
<1>2. CASE EntitiesDone \/ TopDownDone \/ LabelsDone \/ BottomUpDone
  BY <1>2, HandedOn DEF EntitiesDone, TopDownDone, LabelsDone, BottomUpDone, Enter
<1>3. CASE SeedRenames
  <2>1. \A p \in Renames : IsNamedEntity(O[p[1]])
    BY DEF Renames, RenameCandidates, Renaming, FunctionLike, NamedEntity, IsNamedEntity
  <2>2. Scoped(pairs \cup Renames)
    BY <2>1, OneMoreScoped
  <2> QED BY <1>3, <2>2, HandedOn DEF SeedRenames, Enter
<1>4. CASE PairRoots
  <2>1. EnclosingEntity(O, Root) = {} /\ EnclosingEntity(N, Root) = {}
    BY <1>1, NoneAboveRoot DEF Inputs
  <2>2. Scoped(pairs \cup {<<Root, Root>>})
    BY <2>1, OnePairScoped DEF SameScope
  <2>3. (pairs' = pairs \/ pairs' = pairs \cup {<<Root, Root>>}) /\ O' = O /\ N' = N
    BY <1>4 DEF PairRoots, Enter
  <2> QED BY <2>2, <2>3, HandedOn
<1>5. CASE DropOperators
  BY <1>1, <1>5, WithoutOperatorsScoped, HandedOn DEF DropOperators, Enter
<1> QED BY <1>2, <1>3, <1>4, <1>5

(* Until the prunes, what is inside an entity is paired with what is inside *)
(* another one only as a part of equal subtrees, for any two trees: in      *)
(* particular the call rule, which looks at the parents alone, and the      *)
(* removal of operators leave every scope as the gates found it.            *)
THEOREM InternalsAreScoped == Spec => []InternalsStayInScope
<1>1. Init => InternalsStayInScope
  BY DEF Init, InternalsStayInScope
<1>2. IInv /\ InternalsStayInScope /\ [Next]_vars => InternalsStayInScope'
  <2> SUFFICES ASSUME IInv, InternalsStayInScope, [Next]_vars PROVE InternalsStayInScope'
    OBVIOUS
  <2>1. CASE UNCHANGED vars \/ Matched
    BY <2>1 DEF Matched, vars, InternalsStayInScope, InScope, SameScope, InEqualSubtrees
  <2>2. CASE PruneStatements \/ PruneOperators \/ BindOperators
    BY <2>2 DEF PruneStatements, PruneOperators, BindOperators, Enter, InternalsStayInScope
  <2>3. CASE \/ MatchEntity \/ MatchTopDown \/ MatchLabel \/ MatchBottomUp
             \/ EntitiesDone \/ SeedRenames \/ TopDownDone \/ PairRoots \/ LabelsDone
             \/ DropOperators \/ BottomUpDone
    <3>1. Scoped(pairs)
      BY <2>3 DEF InternalsStayInScope, Scoped, MatchEntity, MatchTopDown, MatchLabel,
                  MatchBottomUp, EntitiesDone, SeedRenames, TopDownDone, PairRoots,
                  LabelsDone, DropOperators, BottomUpDone
    <3> QED BY <2>3, <3>1, MatchEntityScoped, MatchTopDownScoped, MatchLabelScoped,
               MatchBottomUpScoped, PassScoped
  <2> QED BY <2>1, <2>2, <2>3 DEF Next
<1> QED BY <1>1, <1>2, InitIInv, StepIInv, PTL DEF Spec
=============================================================================
