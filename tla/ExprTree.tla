------------------------------ MODULE ExprTree ------------------------------
(***************************************************************************)
(* How the parser builds the tree of an expression (parser/parser.c:       *)
(* parser_parse_expr, parser_parse_expr_with_op_prio, parser_parse_expr_arg *)
(* and parser_parse_expr_op).  The three functions call each other; calls  *)
(* is their stack of activations of parser_parse_expr_with_op_prio.  The   *)
(* nodes are copied and overwritten in place, so a node is an address, its *)
(* index in tree; parser_allocate_ast_el gives addresses that stay (it     *)
(* reallocates, see README).  Operators stand for their level: "*" for "/",*)
(* "=" for the other comparisons, "IS" for "IS NOT"; "x" is a literal, a   *)
(* name or NULL.                                                           *)
(***************************************************************************)
EXTENDS Naturals, Sequences

CONSTANTS
  BinOps,      \* the binary operators of the texts that are tried
  MaxLexems,   \* bound on the length of a text
  MaxCalls     \* bound on the calls that are active at a time

Levels == 1 .. 7

expr_op_level(op) ==
  CASE op = "*" -> 1 [] op \in {"+", "-"} -> 2 [] op = "=" -> 3 [] op = "IS" -> 4
    [] op = "NOT" -> 5 [] op = "AND" -> 6 [] op = "OR" -> 7

AllOps == {"*", "+", "-", "=", "IS", "AND", "OR"}

ASSUME ExprAssumption ==
  BinOps \subseteq AllOps /\ MaxLexems \in Nat /\ MaxCalls \in Nat

VARIABLES
  lexem,       \* g_parser_state.lexem
  text,        \* the lexems before it
  tree,        \* the nodes allocated so far; the first is the root
  calls,       \* what the active calls of parser_parse_expr_with_op_prio know
  saved_op     \* g_parser_state.saved_op

exprVars == <<lexem, text, tree, calls, saved_op>>

(* The lexems that may come before and behind an argument; the others are  *)
(* turned down there (module Statements has which texts are).              *)
Signs    == BinOps \cap {"+", "-"}
BeforeArg == {"x", "(", "NOT"}
BehindArg == BinOps \cup {")", "end"}

(* A node.  Not in the code: at, which lexem made it (0 for the zero of a  *)
(* sign), and whole, set for what stands in parentheses.                   *)
Node(op, at, left, right) ==
  [op |-> op, at |-> at, left |-> left, right |-> right, whole |-> FALSE]
New == Node("new", 0, 0, 0)

(* A call: the node it works on, node_for_level, highest_lvl, what comes   *)
(* next ("start": sign or argument; "plus": argument; "first": operator    *)
(* of a root that is none yet; "arg": right argument; "op": operator), and *)
(* whether a parenthesis, NOT or nothing is around it.                     *)
Activation(n, highest, within) ==
  [stmt |-> n, root |-> n, node_for_level |-> [l \in Levels |-> n],
   highest |-> highest, next |-> "start", within |-> within]

Top == calls[Len(calls)]
Below == SubSeq(calls, 1, Len(calls) - 1)

Here == Len(text) + 1     \* which lexem lexem is
Fresh == Len(tree) + 1    \* what the next parser_allocate_ast_el gives

ExprInit ==
  /\ lexem \in BeforeArg \cup Signs
  /\ text = <<>>
  /\ tree = <<New>>
  /\ calls = <<Activation(1, 255, "nothing")>>
  /\ saved_op = "none"

lexer_next(lexems) ==
  /\ Len(text) < MaxLexems
  /\ text' = Append(text, lexem)
  /\ lexem' \in lexems

----------------------------------------------------------------------------
(* parser_parse_expr_arg.  Where the argument goes, and what the call that *)
(* asked for it does next.                                                 *)

Wanted == calls # <<>> /\ Top.next \in {"start", "plus", "arg"}
Target == IF Top.next = "arg" THEN tree[Top.stmt].right ELSE Top.stmt
Asked  == [Top EXCEPT !.next = IF @ = "arg" THEN "op" ELSE "first"]

Argument ==
  /\ Wanted
  /\ lexem = "x"
  /\ lexer_next(BehindArg)
  /\ tree' = [tree EXCEPT ![Target] = Node("x", Here, 0, 0)]
  /\ calls' = Append(Below, Asked)
  /\ saved_op' = "none"

Subexpression ==
  /\ Wanted
  /\ lexem = "("
  /\ Len(calls) < MaxCalls
  /\ lexer_next(BeforeArg \cup Signs)
  /\ calls' = Below \o <<Asked, Activation(Target, 255, "parentheses")>>
  /\ saved_op' = "none"
  /\ UNCHANGED tree

Negation ==
  /\ Wanted
  /\ lexem = "NOT"
  /\ Len(calls) < MaxCalls
  /\ lexer_next(BeforeArg \cup Signs)
  /\ tree' = Append([tree EXCEPT ![Target] = Node("NOT", Here, Fresh, 0)], New)
  /\ calls' = Below \o <<Asked, Activation(Fresh, expr_op_level("NOT"), "NOT")>>
  /\ saved_op' = "none"

----------------------------------------------------------------------------
(* parser_parse_expr_with_op_prio.  A sign in front: 0 - argument.         *)

Sign ==
  /\ calls # <<>>
  /\ Top.next = "start"
  /\ lexem \in Signs
  /\ lexer_next(BeforeArg)
  /\ IF lexem = "-"
     THEN /\ tree' = [tree EXCEPT ![Top.stmt] = Node("-", Here, Fresh, Fresh + 1)]
                     \o <<Node("x", 0, 0, 0), New>>
          /\ calls' = Append(Below, [Top EXCEPT !.next = "arg",
                                                !.node_for_level[2] = Top.stmt])
     ELSE /\ calls' = Append(Below, [Top EXCEPT !.next = "plus"])
          /\ UNCHANGED tree
  /\ UNCHANGED saved_op

(* Mutant: what was there is not copied.                                   *)
InPlace(n, op, at) ==
  [tree EXCEPT ![n] = Node(op, at, Fresh, Fresh + 1)] \o <<New, New>>

(* The operator becomes the one at n, and what was there its left operand. *)
Above(n, op, at) ==
  [tree EXCEPT ![n] = Node(op, at, Fresh, Fresh + 1)] \o <<tree[n], New>>

(* The operator takes the right operand of n as its left one.              *)
Under(n, op, at) ==
  [tree EXCEPT ![n].right = Fresh]
  \o <<Node(op, at, tree[n].right, Fresh + 1), New>>

(* Mutant: only the operand at the end is looked at, never a level above.  *)
AlwaysUnder(stmt, level) == FALSE
Climbs(stmt, level) == expr_op_level(tree[stmt].op) < level

(* The call goes on with operator op, which lexem number at made.          *)
Continue(op, at) ==
  LET level == expr_op_level(op)
      n == Top.node_for_level[level]
      At(m) == Append(Below, [Top EXCEPT !.stmt = m, !.node_for_level[level] = m,
                                         !.next = "arg"])
  IN CASE Top.next = "first" ->
            tree' = Above(Top.stmt, op, at) /\ calls' = At(Top.stmt)
       [] Top.next = "op" /\ Climbs(Top.stmt, level) ->
            tree' = Above(n, op, at) /\ calls' = At(n)
       [] OTHER ->
            tree' = Under(Top.stmt, op, at) /\ calls' = At(Fresh)

(* An operator of lower priority than NOT is kept for the caller.          *)
Take(op, at) ==
  IF expr_op_level(op) > Top.highest
  THEN saved_op' = op /\ calls' = Below /\ UNCHANGED tree
  ELSE saved_op' = "none" /\ Continue(op, at)

AwaitsOperator == calls # <<>> /\ Top.next \in {"first", "op"}

Operator ==
  /\ AwaitsOperator
  /\ saved_op = "none"
  /\ lexem \in BinOps
  /\ lexer_next(BeforeArg)
  /\ Take(lexem, Here)

SavedOperator ==
  /\ AwaitsOperator
  /\ saved_op # "none"
  /\ Take(saved_op, Len(text))
  /\ UNCHANGED <<lexem, text>>

(* No operator: the call returns, and its argument is complete.            *)
Return ==
  /\ AwaitsOperator
  /\ saved_op = "none"
  /\ lexem \notin BinOps
  /\ calls' = Below
  /\ IF Top.within = "parentheses"
     THEN /\ lexem = ")"
          /\ lexer_next(BehindArg)
          /\ tree' = [tree EXCEPT ![Top.root].whole = TRUE]
     ELSE UNCHANGED <<lexem, text, tree>>
  /\ UNCHANGED saved_op

ExprNext ==
  \/ Argument
  \/ Subexpression
  \/ Negation
  \/ Sign
  \/ Operator
  \/ SavedOperator
  \/ Return

ExprSpec == ExprInit /\ [][ExprNext]_exprVars
=============================================================================
