----------------------------- MODULE Statements -----------------------------
(***************************************************************************)
(* The statement parser, parser/parser.c: which texts it takes.  Every     *)
(* parser_parse_* function is the list of what it reads in turn; where it  *)
(* looks at g_parser_state.lexem it decides with At, Opt, While or Word.   *)
(* The tree it builds is left out (module ExprTree builds the part whose   *)
(* shape is in question), and so are the messages: an error ends it.       *)
(***************************************************************************)
EXTENDS Grammar, FiniteSets

(* Lexems; "OTHER" is a lexem no statement has, or text that is none, an   *)
(* integer out of range included.  A number is "INT" when the lexer read   *)
(* it as an integer, "NUM" when it read a decimal.                         *)
Words ==
  {"ACTION", "ADD", "ALL", "ALTER", "AND", "AS", "ASC", "BY", "CASCADE",
   "CHARACTER", "CHECK", "COLUMN", "CONSTRAINT", "CREATE", "CROSS", "DATABASE",
   "DATE", "DECIMAL", "DEFAULT", "DELETE", "DESC", "DISTINCT", "DOUBLE", "DROP",
   "EXCEPT", "FIRST", "FLOAT", "FOREIGN", "FROM", "FULL", "GROUP", "HAVING",
   "INNER", "INSERT", "INTEGER", "INTERSECT", "INTO", "IS", "JOIN", "KEY", "LAST",
   "LEFT", "MODIFY", "NO", "NOT", "NULL", "NULLS", "NUMBER", "ON", "OR", "ORDER",
   "OUTER", "PRECISION", "PRIMARY", "REFERENCES", "RENAME", "RESTRICT", "RIGHT",
   "SELECT", "SET", "SMALLINT", "TABLE", "TIME", "TIMESTAMP", "TO", "UNION",
   "UNIQUE", "UPDATE", "VALUES", "VARCHAR", "VARYING", "WHERE", "WITH", "ZONE"}
Tokens == {"(", ")", "*", "+", ",", "-", ".", "/", "<", "=", ">"}
Lexems == Words \cup Tokens \cup {"ID", "STR", "NUM", "INT", "OTHER", "EOS"}

AnError == Lex({})
CommaSep(s) == s \o <<While({","}, <<Lex({","})>> \o s)>>
RECURSIVE Switch(_, _)
Switch(cases, else) ==
  IF cases = <<>> THEN else
  ELSE <<At(Head(cases)[1], Head(cases)[2], Switch(Tail(cases), else))>>
Enclosed(s) == <<Lex({"("})>> \o s \o <<Lex({")"})>>

----------------------------------------------------------------------------
(* Names and expressions.                                                  *)

parse_identifier == <<Lex({"ID"})>>
parse_name       == <<Lex({"ID"}), Opt({"."}, <<Lex({"ID"})>>)>>

(* The argument of NOT takes the operators that bind closer and the        *)
(* expression around it the others: it makes no difference to what is      *)
(* read.                                                                   *)
parse_expr_arg ==
  Switch(<< <<{"("}, Enclosed(<<Call("expr")>>)>>,
            <<{"ID"}, parse_name>>,
            <<{"NOT"}, <<Lex({"NOT"}), Call("expr")>> >> >>,
         <<Lex({"STR", "NUM", "INT", "NULL"})>>)

Operators == {"*", "/", "+", "-", "=", "<", ">", "IS", "AND", "OR"}

parse_expr_op ==
  Switch(<< <<{"<"},  <<Lex({"<"}), Opt({"=", ">"}, <<>>)>> >>,
            <<{">"},  <<Lex({">"}), Opt({"="}, <<>>)>> >>,
            <<{"IS"}, <<Lex({"IS"}), Opt({"NOT"}, <<>>)>> >> >>,
         <<Lex(Operators)>>)

parse_expr ==
  <<Opt({"+", "-"}, <<>>), Call("arg"),
    While(Operators, parse_expr_op \o <<Call("arg")>>)>>

parse_optional_alias  == <<Opt({"AS"}, <<>>), At({"ID"}, parse_identifier, <<>>)>>
parse_named_expr_list == CommaSep(<<Call("expr")>> \o parse_optional_alias)
parse_expr_list       == CommaSep(<<Call("expr")>>)

----------------------------------------------------------------------------
(* Select.                                                                 *)

Subquery == Enclosed(<<Lex({"SELECT"}), Call("select")>>)

FromItem(missing) ==
  Switch(<< <<{"("}, Subquery \o parse_optional_alias>>,
            <<{"ID"}, parse_name \o parse_optional_alias>> >>, missing)

JoinStarts == {"INNER", "CROSS", "LEFT", "RIGHT", "FULL", "JOIN"}

JoinWords ==
  Switch(<< <<{"INNER", "CROSS"}, <<Lex({"INNER", "CROSS"})>> >>,
            <<{"LEFT", "RIGHT", "FULL"},
              <<Lex({"LEFT", "RIGHT", "FULL"}), Opt({"OUTER"}, <<>>)>> >> >>,
         <<>>)
  \o <<Opt({"JOIN"}, <<>>)>>

(* Any one of these words makes a join, and only the first item is missed. *)
parse_from ==
  FromItem(<<AnError>>)
  \o <<While(JoinStarts,
             JoinWords \o FromItem(<<>>) \o <<Opt({"ON"}, <<Call("expr")>>)>>)>>

parse_single_select ==
  <<Opt({"DISTINCT", "ALL"}, <<>>),
    At({"*"}, <<Lex({"*"})>>, parse_named_expr_list),
    Opt({"FROM"}, <<Call("from")>>),
    Opt({"WHERE"}, <<Call("expr")>>),
    Opt({"GROUP"}, <<Lex({"BY"})>> \o parse_expr_list
                   \o <<Opt({"HAVING"}, parse_expr_list)>>)>>

parse_order_by ==
  CommaSep(<<Call("expr"), Opt({"ASC", "DESC"}, <<>>),
             Opt({"NULLS"}, <<Lex({"FIRST", "LAST"})>>)>>)

(* The test for ORDER looks at the word read last, whatever the lexem is.  *)
parse_select ==
  <<Call("single_select"),
    While({"UNION", "INTERSECT", "EXCEPT"},
          <<Lex({"UNION", "INTERSECT", "EXCEPT"}), Opt({"ALL"}, <<>>),
            Lex({"SELECT"}), Call("single_select")>>),
    Word({"ORDER"}, <<Lex(Lexems), Lex({"BY"})>> \o parse_order_by)>>

----------------------------------------------------------------------------
(* Insert, update, delete.                                                 *)

parse_colname_list          == CommaSep(parse_identifier)
parse_enclosed_colname_list == Enclosed(parse_colname_list)
parse_optional_enclosed_colname_list == <<At({"("}, parse_enclosed_colname_list, <<>>)>>

parse_insert ==
  <<Lex({"INTO"})>> \o parse_name \o parse_optional_enclosed_colname_list
  \o Switch(<< <<{"VALUES"}, <<Lex({"VALUES"})>> \o Enclosed(parse_expr_list)>>,
               <<{"SELECT"}, <<Lex({"SELECT"}), Call("select")>> >> >>,
            <<AnError>>)

Where == <<Opt({"WHERE"}, <<Call("expr")>>)>>

(* Mutant: a second assignment is read without its comma.                  *)
NoComma ==
  parse_name \o parse_optional_alias
  \o <<Lex({"SET"}), While({"ID"}, parse_name \o <<Lex({"="}), Call("expr")>>)>>
  \o Where

parse_update ==
  parse_name \o parse_optional_alias
  \o <<Lex({"SET"})>> \o CommaSep(parse_name \o <<Lex({"="}), Call("expr")>>)
  \o Where

parse_delete == <<Opt({"FROM"}, <<>>)>> \o parse_name \o parse_optional_alias \o Where

----------------------------------------------------------------------------
(* Create, drop, alter.                                                    *)

(* A decimal has the integer 0.                                            *)
parse_integer(min) == <<Lex(IF min = 0 THEN {"INT", "NUM"} ELSE {"INT"})>>

(* The lexer has read the lexem behind the parenthesis already when its    *)
(* mode is changed back.                                                   *)
(* Mutant: the mode stays.                                                 *)
StaysInteger(integers) ==
  <<At({"("}, <<IntegerMode(TRUE)>> \o Enclosed(integers), <<>>)>>
parse_dt_precision(integers) ==
  <<At({"("}, <<IntegerMode(TRUE)>> \o Enclosed(integers) \o <<IntegerMode(FALSE)>>, <<>>)>>

parse_col_datatype(none) ==
  LET precision == parse_integer(1) \o <<Opt({","}, parse_integer(0))>>
      zone == <<Opt({"WITH"}, <<Lex({"TIME"}), Lex({"ZONE"})>>)>>
  IN Switch(
    << <<{"CHARACTER"}, <<Lex({"CHARACTER"}), Lex({"VARYING"})>>
                        \o parse_dt_precision(parse_integer(1))>>,
       <<{"VARCHAR"}, <<Lex({"VARCHAR"})>> \o parse_dt_precision(parse_integer(1))>>,
       <<{"DECIMAL", "NUMBER"}, <<Lex({"DECIMAL", "NUMBER"})>>
                                \o parse_dt_precision(precision)>>,
       <<{"TIMESTAMP"}, <<Lex({"TIMESTAMP"})>> \o zone
                        \o parse_dt_precision(parse_integer(0))>>,
       <<{"SMALLINT", "INTEGER", "FLOAT", "DATE"},
         <<Lex({"SMALLINT", "INTEGER", "FLOAT", "DATE"})>> >>,
       <<{"DOUBLE"}, <<Lex({"DOUBLE"}), Lex({"PRECISION"})>> >> >>, none)

DefaultAndNull ==
  <<Opt({"DEFAULT"}, <<Call("expr")>>),
    At({"NOT"}, <<Lex({"NOT"}), Lex({"NULL"})>>, <<Opt({"NULL"}, <<>>)>>)>>

parse_col_desc_list ==
  parse_identifier \o parse_col_datatype(<<AnError>>) \o DefaultAndNull
  \o <<Opt({","}, <<At({"CONSTRAINT"}, <<>>, <<Call("col_desc_list")>>)>>)>>

OnDelete ==
  Switch(<< <<{"RESTRICT", "CASCADE"}, <<Lex({"RESTRICT", "CASCADE"})>> >>,
            <<{"SET"}, <<Lex({"SET"}), Lex({"NULL", "DEFAULT"})>> >> >>,
         <<Lex({"NO"}), Lex({"ACTION"})>>)

parse_constr_body ==
  Switch(
    << <<{"CHECK"},   <<Lex({"CHECK"})>> \o Enclosed(<<Call("expr")>>)>>,
       <<{"UNIQUE"},  <<Lex({"UNIQUE"})>> \o parse_enclosed_colname_list>>,
       <<{"PRIMARY"}, <<Lex({"PRIMARY"}), Lex({"KEY"})>> \o parse_enclosed_colname_list>> >>,
    <<Lex({"FOREIGN"}), Lex({"KEY"})>> \o parse_enclosed_colname_list
    \o <<Lex({"REFERENCES"})>> \o parse_name \o parse_optional_enclosed_colname_list
    \o <<Opt({"ON"}, <<Lex({"DELETE"})>> \o OnDelete)>>)

parse_table_constraints ==
  <<Lex({"CONSTRAINT"})>> \o parse_identifier \o parse_constr_body
  \o <<Opt({","}, <<At({"CONSTRAINT"}, <<Call("table_constraints")>>, <<>>)>>)>>

parse_create_table ==
  parse_name
  \o Enclosed(<<Call("col_desc_list"),
                At({"CONSTRAINT"}, <<Call("table_constraints")>>, <<>>)>>)

parse_create_database == parse_identifier
parse_drop_table      == parse_name
parse_drop_database   == parse_identifier

parse_alter_column == parse_identifier \o parse_col_datatype(<<>>) \o DefaultAndNull

Adding ==
  <<Lex({"ADD"})>> \o Switch(
    << <<{"CONSTRAINT"}, <<Lex({"CONSTRAINT"})>> \o parse_identifier \o parse_constr_body>>,
       <<{"COLUMN", "ID"}, <<Opt({"COLUMN"}, <<>>)>> \o parse_alter_column>> >>,
    <<AnError>>)

(* What is no reserved word behind RENAME is no error here.                *)
Renaming ==
  LET Names == parse_identifier \o <<Lex({"TO"})>> \o parse_identifier
  IN <<Lex({"RENAME"})>> \o Switch(
       << <<{"COLUMN", "CONSTRAINT"}, <<Lex({"COLUMN", "CONSTRAINT"})>> \o Names>>,
          <<{"TO"}, <<Lex({"TO"})>> \o parse_identifier>>,
          <<Words, <<AnError>> >> >>,
       <<>>)

parse_alter_table ==
  parse_name
  \o Switch(
    << <<{"ADD"}, Adding>>,
       <<{"ALTER", "MODIFY"}, <<Lex({"ALTER", "MODIFY"}), Opt({"COLUMN"}, <<>>)>>
                              \o parse_alter_column>>,
       <<{"DROP"}, <<Lex({"DROP"}), Opt({"COLUMN", "CONSTRAINT"}, <<>>)>> \o parse_identifier>>,
       <<{"RENAME"}, Renaming>> >>,
    <<AnError>>)

----------------------------------------------------------------------------
TableOr(word, table, other) ==
  <<Lex({word})>>
  \o Switch(<< <<{"TABLE"}, <<Lex({"TABLE"})>> \o table>> >>, <<Lex({"DATABASE"})>> \o other)

parse_statement ==
  Switch(
    << <<{"SELECT"}, <<Lex({"SELECT"}), Call("select")>> >>,
       <<{"INSERT"}, <<Lex({"INSERT"})>> \o parse_insert>>,
       <<{"UPDATE"}, <<Lex({"UPDATE"})>> \o parse_update>>,
       <<{"DELETE"}, <<Lex({"DELETE"})>> \o parse_delete>>,
       <<{"CREATE"}, TableOr("CREATE", parse_create_table, parse_create_database)>>,
       <<{"DROP"},   TableOr("DROP", parse_drop_table, parse_drop_database)>>,
       <<{"ALTER"},  <<Lex({"ALTER"}), Lex({"TABLE"})>> \o parse_alter_table>> >>,
    <<AnError>>)

Procedures ==
  [expr |-> parse_expr, arg |-> parse_expr_arg, select |-> parse_select,
   single_select |-> parse_single_select, from |-> parse_from,
   col_desc_list |-> parse_col_desc_list, table_constraints |-> parse_table_constraints,
   statement |-> parse_statement]

----------------------------------------------------------------------------
CONSTANTS
  MaxStack,   \* bound on what is still open: statements nested deeper are not tried
  MaxNested   \* bound on the expressions one within another

VARIABLES
  verdict,   \* "parsing", "accepted" or "rejected"
  pending,   \* what the functions that were called still have to read
  int,       \* num_mode of the lexer
  word       \* whether lexem.reserved_word is ORDER or another one

parser == <<verdict, pending, int, word>>

Start == <<Call("statement"), Lex({"EOS"})>>

ParserInit ==
  /\ verdict = "parsing"
  /\ pending = Start
  /\ int = FALSE
  /\ word = "other"

(* lexer_next gives l: the mode it was read in shows in a number only.     *)
Offered(l) == (l = "INT" => int) /\ (l = "NUM" => ~ int)

WordAfter(l) == IF l = "ORDER" THEN l ELSE IF l \in Words THEN "other" ELSE word

parser_parse(l) ==
  /\ verdict = "parsing"
  /\ Offered(l)
  /\ word' = WordAfter(l)
  /\ LET r == Advance(Procedures, pending, l, WordAfter(l), int) IN
       /\ Len(r.stack) <= MaxStack
       /\ Cardinality({i \in DOMAIN r.stack : r.stack[i] = parse_expr[3]}) <= MaxNested
       /\ pending' = r.stack
       /\ int' = r.int
       /\ verdict' = IF r.stack = Failed THEN "rejected"
                     ELSE IF r.stack = <<>> THEN "accepted" ELSE "parsing"

(* The next statement of the session: lexer_reset; the lexem stays.        *)
NextStatement ==
  /\ verdict = "accepted"
  /\ verdict' = "parsing"
  /\ pending' = Start
  /\ int' = FALSE
  /\ UNCHANGED word
=============================================================================
