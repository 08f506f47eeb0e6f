----------------------------- MODULE ExprProps -----------------------------
(* What the tree of an expression promises about its text.                 *)
EXTENDS ExprTree, FiniteSets, SequencesExt

Done == calls = <<>>

Binary(n) == tree[n].op \in BinOps

(* syntax.txt:30-42: bin_op_1, the one that binds least tightly, is OR.    *)
Level(n) ==
  LET op == tree[n].op IN
  CASE op = "OR" -> 7 [] op = "AND" -> 6 [] op = "NOT" -> 5 [] op = "IS" -> 4
    [] op = "=" -> 3 [] op \in {"+", "-"} -> 2 [] op = "*" -> 1

(* The lexems that made the nodes of the subtree at n, in the order of an  *)
(* infix text; address 0 is NULL.                                          *)
NodesInOrder[n \in 0 .. Len(tree)] ==
  IF n = 0 THEN <<>>
  ELSE IF tree[n].op = "NOT" THEN <<tree[n].at>> \o NodesInOrder[tree[n].left]
  ELSE NodesInOrder[tree[n].left] \o <<tree[n].at>> \o NodesInOrder[tree[n].right]

InTree ==
  LET Reach[k \in 0 .. Len(tree)] ==
        IF k = 0 THEN {1}
        ELSE Reach[k - 1] \cup UNION {{tree[n].left, tree[n].right} \ {0} : n \in Reach[k - 1]}
  IN Reach[Len(tree)]

(* A plus in front and parentheses leave no node.                          *)
IsSign(i) == text[i] \in {"+", "-"} /\ (i = 1 \/ text[i - 1] \in {"(", "NOT"})
Shown(i) == text[i] \notin {"(", ")"} /\ ~ (text[i] = "+" /\ IsSign(i))

(* The tree keeps its text: for all the copying and overwriting of nodes,  *)
(* every operand and every operator of the text is in the finished tree    *)
(* exactly once and in its place; only the zero of a sign is added         *)
(* (parser.c:342-482).                                                     *)
TextKept ==
  Done => SelectSeq(NodesInOrder[1], LAMBDA i : i # 0)
          = SelectSeq([i \in DOMAIN text |-> i], Shown)

(* It does so if the text has no more than four operators, or operators of *)
(* two levels or less: an operator that was moved to the left of a looser  *)
(* one is found again in node_for_level only by a fifth, behind one of a   *)
(* third level (parser.c:446-456).                                         *)
InfixPlaces == {i \in DOMAIN text : text[i] \in BinOps}
FewOperators ==
  \/ Cardinality(InfixPlaces) <= 4
  \/ Cardinality({expr_op_level(text[i]) : i \in InfixPlaces}) <= 2
SameText == FewOperators => TextKept

(* An operand that is no operator, stands in parentheses or is a NOT on    *)
(* the right is one whatever the operator around it.                       *)
Loose(m, n) == Binary(m) /\ ~ tree[m].whole /\ Level(m) > Level(n)

(* What an operator has to its right never binds less tightly than it, and *)
(* the argument of NOT never less than NOT (parser.c:432-475).             *)
RightBinds ==
  Done => \A n \in InTree :
            /\ Binary(n) => ~ Loose(tree[n].right, n)
            /\ tree[n].op = "NOT" => ~ Loose(tree[n].left, n)
=============================================================================
