----------------------------- MODULE MCFolding -----------------------------
EXTENDS Folding, TLC

(* The shapes of trees with k operators: how many operands a node has.     *)
Grafted(i, s) == [a \in {<<i>> \o b : b \in DOMAIN s} |-> s[Tail(a)]]
Leaf == <<>> :> 0

RECURSIVE Shapes(_)
Shapes(k) ==
  IF k = 0 THEN {Leaf}
  ELSE {(<<>> :> 1) @@ Grafted(1, s) : s \in Shapes(k - 1)}
       \cup UNION {{(<<>> :> 2) @@ Grafted(1, s) @@ Grafted(2, t) :
                      s \in Shapes(i), t \in Shapes(k - 1 - i)} : i \in 0 .. k - 1}

Nodes(s, arity) == {a \in DOMAIN s : s[a] = arity}

Trees(k, ops, leaves) ==
  UNION {{[a \in Nodes(s, 1) |-> "NOT"] @@ f @@ g :
            f \in [Nodes(s, 2) -> ops], g \in [Nodes(s, 0) -> leaves]} : s \in Shapes(k)}

MCExprs ==
  Trees(0, {}, {"0", "name"})
  \cup Trees(1, {"/", "=", "IS", "IS NOT", "AND", "OR"}, {"0", "1", "str", "null", "name"})
  \cup Trees(2, {"/", "=", "IS", "AND", "OR"}, {"0", "1", "null", "name"})
  \cup Trees(3, {"/", "=", "AND"}, {"0", "null", "name"})
=============================================================================
