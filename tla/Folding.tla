------------------------------ MODULE Folding ------------------------------
(***************************************************************************)
(* How the constant parts of an expression are computed:                   *)
(* execution/expression.c with the stack of common/stack.c.  The tree is   *)
(* walked without recursion; what is computed takes the place of its       *)
(* operator, and an operator above a name stays.  A node is an address:    *)
(* the way to it from the root, 1 to the left and 2 to the right.          *)
(***************************************************************************)
EXTENDS Naturals, Sequences, FiniteSets

CONSTANTS
  Exprs,       \* the trees that are tried, as functions from addresses to nodes
  StackSize    \* what stack_create was given

(* Nodes: numbers are 0 and 1, for decimals; all strings are equal.  "/"   *)
(* stands for the arithmetic, which may fail, "=" for the comparisons.     *)
Nums   == {"0", "1"}
Bools  == {"true", "false"}
Ops    == {"/", "=", "IS", "IS NOT", "NOT", "AND", "OR"}
Errors == {"datatype mismatch", "division by zero"}

Type(v) == IF v \in Nums THEN "num" ELSE IF v \in Bools THEN "bool" ELSE v

left(n)   == Append(n, 1)
right(n)  == Append(n, 2)
second(t, n) == IF t[n] = "NOT" THEN left(n) ELSE right(n)

(* What parser and lexer can make: a finite tree, with operands below each *)
(* operator, one below a NOT, and nothing below an operand.                *)
Leaves == Nums \cup Bools \cup {"str", "null", "name"}
IsTree(t) ==
  /\ t \in [DOMAIN t -> Ops \cup Leaves] /\ <<>> \in DOMAIN t
  /\ \A n \in DOMAIN t :
       /\ n \in Seq({1, 2})
       /\ \A k \in 0 .. Len(n) - 1 : SubSeq(n, 1, k) \in DOMAIN t /\ t[SubSeq(n, 1, k)] \in Ops
       /\ t[n] \in Ops => left(n) \in DOMAIN t /\ (right(n) \in DOMAIN t <=> t[n] # "NOT")
  /\ \E d \in DOMAIN t : \A n \in DOMAIN t : Len(n) <= Len(d)

ASSUME FoldingAssumption == StackSize \in Nat /\ \A t \in Exprs : IsTree(t)

VARIABLES
  node,     \* the tree
  expr,     \* the node the walk is at
  prev,     \* the node it came back from
  stack,    \* the nodes to come back to
  status    \* "running", "done" or "failed"

foldVars == <<node, expr, prev, stack, status>>

IsOp(n)  == n \in DOMAIN node /\ node[n] \in Ops

FoldInit ==
  /\ node \in Exprs
  /\ expr = <<>>
  /\ prev = <<>>
  /\ stack = <<>>
  /\ status = IF IsOp(<<>>) THEN "running" ELSE "done"

----------------------------------------------------------------------------
(* expression_calc_base_expr: the value of an operator whose operands are  *)
(* constants.  A NOT has no right operand and is given its left one.       *)

Bool(b) == IF b THEN "true" ELSE "false"

CalcLogic(op, l, r) ==
  IF ~ {l, r} \subseteq Bools THEN "datatype mismatch"
  ELSE CASE op = "NOT" -> Bool(l = "false")
         [] op = "AND" -> Bool(l = "true" /\ r = "true")
         [] op = "OR"  -> Bool(l = "true" \/ r = "true")

Calc(op, l, r) ==
  LET null == "null" \in {l, r}
      both(S) == {l, r} \subseteq S
  IN CASE op = "/" -> IF both(Nums) THEN IF r = "0" THEN "division by zero" ELSE l
                      ELSE IF null THEN "null" ELSE "datatype mismatch"
       [] op = "=" -> IF both(Nums) \/ both({"str"}) THEN Bool(l = r)
                      ELSE IF null THEN "false" ELSE "datatype mismatch"
       [] op \in {"IS", "IS NOT"} ->
            LET is == /\ Type(l) = Type(r)
                      /\ IF both(Bools) THEN l = "true" /\ r = "true" ELSE l = r
            IN Bool(is = (op = "IS"))
       [] OTHER -> CalcLogic(op, l, r)

(* A name, or an operator that was kept, below an operator keeps it.       *)
Open(v) == v = "name" \/ v \in Ops
Result(op, l, r) == IF Open(l) \/ Open(r) THEN op ELSE Calc(op, l, r)

expression_calc_base_expr ==
  LET op == node[expr] IN
  Result(op, node[left(expr)], node[second(node, expr)])

----------------------------------------------------------------------------
(* expression_calc_const_expr: one turn of its loop.                       *)

(* Mutant: only the left operand is known to be done.                      *)
LeftUnseen == prev # left(expr) /\ IsOp(left(expr))
LeftFirst  == prev \notin {left(expr), right(expr)} /\ IsOp(left(expr))

(* Mutant: the right operand is left to the end.                           *)
NoRight   == FALSE
RightNext == node[expr] # "NOT" /\ prev # right(expr) /\ IsOp(right(expr))

Full == Len(stack) = StackSize

stack_push(n) ==
  IF Full
  THEN status' = "failed" /\ UNCHANGED <<stack, expr>>
  ELSE stack' = Append(stack, expr) /\ expr' = n /\ UNCHANGED status

Descend ==
  /\ status = "running"
  /\ \/ LeftFirst /\ stack_push(left(expr))
     \/ ~ LeftFirst /\ RightNext /\ stack_push(right(expr))
  /\ UNCHANGED <<node, prev>>

stack_pop == stack' = SubSeq(stack, 1, Len(stack) - 1)

Compute ==
  /\ status = "running"
  /\ ~ LeftFirst /\ ~ RightNext
  /\ LET v == expression_calc_base_expr IN
       IF v \in Errors
       THEN status' = "failed" /\ UNCHANGED <<node, expr, prev, stack>>
       ELSE /\ node' = [node EXCEPT ![expr] = v]
            /\ IF stack = <<>>
               THEN status' = "done" /\ UNCHANGED <<expr, prev, stack>>
               ELSE /\ prev' = expr
                    /\ expr' = stack[Len(stack)]
                    /\ stack_pop
                    /\ UNCHANGED status

FoldNext == Descend \/ Compute

FoldSpec == FoldInit /\ [][FoldNext]_foldVars /\ WF_foldVars(FoldNext)

----------------------------------------------------------------------------
(* What the walk over the tree computes, against a recursive reading.      *)
VARIABLE original     \* the tree before it was walked
foldingVars == <<foldVars, original>>

FoldedInit == FoldInit /\ original = node
FoldedSpec == FoldedInit /\ [][FoldNext /\ UNCHANGED original]_foldingVars

(* The value of each subtree of t; an error in it is its value.            *)
Valued(op, l, r) ==
  IF l \in Errors THEN l ELSE IF r \in Errors THEN r ELSE Result(op, l, r)
Reference(t) ==
  LET v[n \in DOMAIN t] ==
        IF t[n] \in Ops THEN Valued(t[n], v[left(n)], v[second(t, n)]) ELSE t[n]
  IN v

(* An operator deeper than the stack has places.                           *)
TooDeep == \E n \in DOMAIN original : original[n] \in Ops /\ Len(n) > StackSize

(* When the walk is over every operator without a name below it has its    *)
(* value and every other one is as it was; it fails only because of the    *)
(* tree: a constant part has no value, or operators are nested deeper than *)
(* the stack (expression.c:282-330).                                       *)
Folded ==
  LET value == Reference(original) IN
  /\ status = "done" => (\A n \in DOMAIN original : node[n] = value[n]) /\ ~ TooDeep
  /\ status = "failed" => value[<<>>] \in Errors \/ TooDeep

(* Each operator is computed, once, and the walk ends: the address it came *)
(* back from tells it what is done (expression.c:292-326).                 *)
WalkEnds == <>(status # "running")
=============================================================================
