---------------------------- MODULE MCEditScript ----------------------------
(* Files of at most three definitions or statements over a small           *)
(* vocabulary, every pair of which is diffed.                               *)
EXTENDS EditScript, TLC

CONSTANT Catalogue   \* which files

Id(x) == Leaf("identifier", x)
CallOn(f, e) == Branch("call", <<Id(f), Branch("argument_list", <<e>>)>>)
Call(f, x) == CallOn(f, Id(x))
Expr(e) == Branch("expression_statement", <<e>>)
Return(e) == Branch("return_statement", <<e>>)
Binary(x, op, y) == Branch("binary_operator", <<Id(x), Leaf("operator", op), Id(y)>>)
If(c, body) == Branch("if_statement", <<Id(c), Branch("block", body)>>)
DefWith(f, p, body) ==
  Branch("function_definition", <<Id(f), Branch("parameters", <<Id(p)>>), Branch("block", body)>>)
Def(f, body) == DefWith(f, "x", body)
Class(c, body) == Branch("class_definition", <<Id(c), Branch("block", body)>>)
Decorated(d, def) == Branch("decorated_definition", <<Branch("decorator", <<Id(d)>>), def>>)
Import(f) == Branch("import_from_statement", <<Branch("dotted_name", <<Id(f)>>)>>)

Add == Return(Binary("x", "+", "y"))
Sub == Return(Binary("x", "-", "y"))
OnSum(x, y) == Return(CallOn("h", Binary(x, "+", y)))

(* What a change does to a file: functions renamed, edited, given another's *)
(* body or an import's name, statements moved into and out of blocks, a     *)
(* class renamed where it stands.                                           *)
Changes ==
  <<Def("f", <<Add>>), Def("g", <<Add>>), Def("f", <<OnSum("x", "y")>>), DefWith("f", "z", <<OnSum("z", "w")>>),
    Expr(Call("h", "x")), If("x", <<Expr(Call("h", "x"))>>), Import("f"),
    Class("C", <<Def("f", <<Add>>)>>), Class("D", <<Def("f", <<Add>>)>>), Def("f", <<Sub>>)>>

(* Decorators: put on, taken off, passed on. *)
Decorators ==
  <<Def("f", <<Add>>), Def("g", <<Sub>>),
    Decorated("d", Def("f", <<Add>>)), Decorated("d", Def("g", <<Sub>>))>>

(* Definitions and a statement, in any order. *)
Siblings == <<Def("f", <<Add>>), Def("g", <<Sub>>), Class("C", <<Def("f", <<Add>>)>>), Expr(Call("h", "x"))>>

Items == CASE Catalogue = "changes"    -> Changes
           [] Catalogue = "decorators" -> Decorators
           [] Catalogue = "siblings"   -> Siblings

(* "program" stands for a root that is no named entity, as most grammars have. *)
RootType == IF Catalogue = "decorators" THEN "module" ELSE "program"

(* The empty file, the files of one item, and those of two different ones   *)
(* that are not versions of one function.                                   *)
K == Len(Items)
Versions == IF Catalogue = "changes" THEN {1, 3, 4, 10} ELSE {}
Together(i, j) == i # j /\ ~({i, j} \subseteq Versions)
Short == {<<>>} \cup {<<Items[i]>> : i \in 1..K}
           \cup {<<Items[p[1]], Items[p[2]]>> : p \in {q \in (1..K) \X (1..K) : Together(q[1], q[2])}}

(* Files that define a function twice; one with another class and another   *)
(* method of that name; and two items on either side of a third.            *)
Others == {<<Items[3], Items[3]>>, <<Items[1], Items[4]>>, <<Class("D", <<Items[10]>>)>>,
           <<Items[1], Items[5], Items[8]>>, <<Items[8], Items[5], Items[1]>>}

(* Files of three different items. *)
Rows == {[k \in 1..3 |-> Items[i[k]]] : i \in {j \in [1..3 -> 1..K] : IsInjective(j)}}

Files == CASE Catalogue = "changes"  -> Short \cup Others
           [] Catalogue = "siblings" -> Rows
           [] OTHER                  -> Short
MCTrees == {Indexed(Branch(RootType, f)) : f \in Files}
MCSimilarity == [num |-> 1, den |-> 2]
=============================================================================
