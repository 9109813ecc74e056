---------------------------- MODULE SemanticTree ----------------------------
(****************************************************************************)
(* Semantic trees and their index (SemanticNode and TreeIndex of lib.rs).   *)
(*                                                                          *)
(* A tree is a function from node ids to nodes.  An id is the path of child *)
(* slots from the root, as convert_cst builds it ("0.1.2"), so that parent, *)
(* sibling slot, height and descendants can be read off the ids.  Ids are   *)
(* compared as strings in the code, which for fewer than ten siblings is    *)
(* the order of the paths: preorder.  Operator leaves take a slot here and  *)
(* are named apart in the code ("0.1.op0"); no entity lies beside one.      *)
(*                                                                          *)
(* A node keeps the fields the matcher reads: type, label, start position   *)
(* and structural hash, where a hash is the content it is the digest of.    *)
(****************************************************************************)
EXTENDS Integers, Sequences, FiniteSets, SequencesExt

(* The node types of the trees, by the classes the code sorts them into.    *)
NamedEntity == {"module", "function_definition", "class_definition"}
FunctionLike == {"module", "function_definition"}
Statement == {"return_statement", "expression_statement", "if_statement", "import_from_statement"}
CallStatement == {"return_statement", "expression_statement"}
CalleeName == {"identifier", "member_expression", "property_identifier"}
OperatorType == "operator"
OperatorBearing == {"binary_operator", "operator"}
Wrapper == "decorated_definition"

IsNamedEntity(node) == node.type \in NamedEntity
IsOperator(node) == node.type = OperatorType

-----------------------------------------------------------------------------
(* Below(m, n): m is a descendant of n.  From(m, n): the path from n to m.  *)
Below(m, n) == IsStrictPrefix(n, m)
From(m, n) == SubSeq(m, Len(n) + 1, Len(m))

Root == <<>>
Parent(n) == Front(n)
Slot(n) == Last(n)

Descendants(T, n) == {m \in DOMAIN T : Below(m, n)}
Ancestors(T, n) == {m \in DOMAIN T : Below(n, m)}
Children(T, n) == {m \in DOMAIN T : Len(m) = Len(n) + 1 /\ Below(m, n)}
IsLeaf(T, n) == Append(n, 1) \notin DOMAIN T
Height(T, n) == Max({Len(m) - Len(n) : m \in Descendants(T, n)} \cup {0})

(* Lexicographic order of tuples of numbers, a prefix first.  On ids it is  *)
(* preorder, on the keys of a min_by_key the order of the tuples.           *)
Before(a, b) ==
  \/ IsStrictPrefix(a, b)
  \/ \E i \in DOMAIN a \cap DOMAIN b :
       a[i] < b[i] /\ \A j \in 1..(i - 1) : a[j] = b[j]

First(S) == {n \in S : \A m \in S : m = n \/ Before(n, m)}

(* The innermost of a chain of ancestors: at most one node, {} for None.    *)
Innermost(S) == {m \in S : \A k \in S : Len(k) <= Len(m)}

(* effective_parent_node: decorator wrappers are transparent.               *)
EffectiveParent(T, n) == Innermost({m \in Ancestors(T, n) : T[m].type # Wrapper})

(* enclosing_entity_node and enclosing_statement *)
EnclosingEntity(T, n) == Innermost({m \in Ancestors(T, n) : IsNamedEntity(T[m])})
EnclosingStatement(T, n) == Innermost({m \in Ancestors(T, n) : T[m].type \in Statement})

(* scope_path: type and label of the enclosing entities, by depth.          *)
ScopePath(T, n) ==
  LET scopes == {m \in Ancestors(T, n) : IsNamedEntity(T[m])}
  IN {<<Cardinality({k \in scopes : Below(m, k)}), T[m].type, T[m].label>> : m \in scopes}

SameHash(T, n, U, m) == T[n].hash = U[m].hash

-----------------------------------------------------------------------------
(****************************************************************************)
(* Building a tree from a grammar, as convert_cst does for Python.          *)
(****************************************************************************)
Leaf(type, text) == [p \in {Root} |-> [type |-> type, label |-> text]]

(* base_label_for: a module is called so, an inner node takes the text of   *)
(* its first identifier, and any other is called by its type.               *)
BranchLabel(type, kids) ==
  LET names == {k \in DOMAIN kids : kids[k][Root].type = "identifier"}
  IN IF type # "module" /\ names # {} THEN kids[Min(names)][Root].label ELSE type

Branch(type, kids) ==
  [p \in {Root} \cup UNION {{<<k>> \o q : q \in DOMAIN kids[k]} : k \in DOMAIN kids} |->
     IF p = Root THEN [type |-> type, label |-> BranchLabel(type, kids)]
                 ELSE kids[Head(p)][Tail(p)]]

(* structural_hash_cst: the types of the inner nodes and the texts of the   *)
(* leaves, and neither positions nor the labels derived from them.          *)
HashOf(T, n) ==
  [q \in {From(m, n) : m \in Descendants(T, n) \cup {n}} |->
     <<T[n \o q].type, IF IsLeaf(T, n \o q) THEN T[n \o q].label ELSE "">>]

(* The source is laid out one definition, decorator or simple statement to  *)
(* a line, with tokens of one width: a node starts at its first token.      *)
StartsLine == {"function_definition", "class_definition", "decorator", "if_statement"}
                \cup CallStatement
FirstToken(T, n) ==
  CHOOSE m \in DOMAIN T :
    /\ m = n \/ Below(m, n)
    /\ \A i \in DOMAIN From(m, n) : From(m, n)[i] = 1
    /\ IsLeaf(T, m)
LineOf(T, n) ==
  LET t == FirstToken(T, n)
  IN Cardinality({m \in DOMAIN T : T[m].type \in StartsLine /\ (m = t \/ Before(m, t))})
ColumnOf(T, n) ==
  Cardinality({m \in DOMAIN T : IsLeaf(T, m) /\ Before(m, FirstToken(T, n))
                                /\ LineOf(T, m) = LineOf(T, n)})

Indexed(T) ==
  [n \in DOMAIN T |->
     [type |-> T[n].type, label |-> T[n].label, line |-> LineOf(T, n),
      col |-> ColumnOf(T, n), hash |-> HashOf(T, n), height |-> Height(T, n)]]
=============================================================================
