------------------------------- MODULE Syntax -------------------------------
(***************************************************************************)
(* The grammar of docs/syntax.txt, against which the parser is checked.    *)
(* The parser takes texts it does not have and turns down texts it has:    *)
(* each such place has a name.  Two grammars come of it: what has to be    *)
(* taken is what is documented without the Refusals, and what may be taken *)
(* is that with the Liberties granted.                                     *)
(*                                                                         *)
(* Where the document has to be read one way or another:                   *)
(*   - NOT stands before its operand, IS NULL behind it; the levels of     *)
(*     operators say what a tree is (module ExprTree), only NOT and IS     *)
(*     decide what a text is;                                              *)
(*   - the constraints of a table may be missing and may have a comma      *)
(*     before them, DOUBLE PRECISION is two words, no number is empty;     *)
(*   - the ; behind a statement is psql's, which does not send it.         *)
(***************************************************************************)
EXTENDS Statements

CONSTANTS Liberties, Refusals

AllLiberties ==
  {"sign_behind_not", "not_anywhere", "is_anything", "operator_behind_is",
   "any_condition", "having_list",
   "as_without_name", "join_of_any_word", "from_item_missing", "trailing_comma",
   "add_without_datatype", "rename_nothing", "with_time_zone", "no_scale",
   "length_optional", "update_alias_without_as"}

AllRefusals ==
  {"fraction_alone", "sign_in_condition", "having_without_commas", "delete_alias_qualified"}

Liberty(name, s) == <<Named(name, s, <<AnError>>)>>
Refusal(name, s) == <<Named(name, s, <<AnError>>)>>

T(l) == Lex({l})
Words1(s) == [i \in DOMAIN s |-> T(s[i])]
List(s) == s \o <<Star(<<T(",")>> \o s)>>
Par(s) == <<T("(")>> \o s \o <<T(")")>>

Identifier == <<T("ID")>>
Name       == <<T("ID"), Maybe(<<T("."), T("ID")>>)>>
Colnames   == Par(List(Identifier))
Expr       == <<Call("expression")>>

----------------------------------------------------------------------------
(* Expressions: factors between AND and OR, a factor is what NOT and IS    *)
(* are about.                                                              *)

SignIfAny == <<Maybe(<<Lex({"+", "-"})>>)>>
Unsigned == <<Call("factor"), Star(<<Lex({"AND", "OR"}), Call("factor")>>)>>

Expression == SignIfAny \o Unsigned

Operand ==
  <<AnyOf(<< <<Lex({"STR", "NUM", "NULL"})>>, Name, Par(Expr),
             Refusal("fraction_alone", Words1(<<".", "NUM">>))>>)>>

Not ==
  <<T("NOT"), AnyOf(<< <<>>, Liberty("sign_behind_not", <<Lex({"+", "-"})>>)>>)>>

Negated == <<Star(Not), Call("operand")>>

Comparison ==
  AnyOf(<< <<Lex({"=", ">", "<"})>>,
           Words1(<<"<", ">">>), Words1(<<">", "=">>), Words1(<<"<", "=">>)>>)

Operation ==
  <<AnyOf(<< <<Lex({"*", "/", "+", "-"})>>, <<Comparison>> >>),
    AnyOf(<< <<Call("operand")>>,
             Liberty("not_anywhere", Not \o <<Call("negated")>>)>>)>>

IsNull ==
  <<T("IS"),
    AnyOf(<<Words1(<<"NULL">>), Words1(<<"NOT", "NULL">>),
            Liberty("is_anything", <<Call("operand")>>),
            Liberty("is_anything", <<T("NOT"), Call("negated")>>)>>)>>

Factor ==
  <<Call("negated"),
    Named("operator_behind_is", <<Star(<<AnyOf(<<Operation, IsNull>>)>>)>>,
          <<Star(Operation), Star(IsNull)>>)>>

----------------------------------------------------------------------------
(* Conditions.  The parser reads a sign at the start of an expression and  *)
(* behind NOT, and a condition is one expression to it.                    *)

LaterSign ==
  <<AnyOf(<< <<>>, Refusal("sign_in_condition", <<Lex({"+", "-"})>>)>>)>>

Predicate(sign) ==
  sign \o Unsigned
  \o <<AnyOf(<< <<Comparison>> \o LaterSign \o Unsigned, Words1(<<"IS", "NULL">>)>>)>>

Test(sign) == <<AnyOf(<<Predicate(sign), Par(<<Call("booleans")>>)>>)>>

Boolean(sign) == <<AnyOf(<<Test(sign), <<T("NOT"), Call("test")>> >>)>>

Booleans ==
  <<Call("boolean"), Star(<<Lex({"AND", "OR"}), Call("later_boolean")>>)>>

Condition ==
  <<Named("any_condition", Expr, <<Call("booleans")>>)>>

Predicates ==
  <<Named("having_list", List(Expr),
      Predicate(SignIfAny)
      \o <<Maybe(<<T(","),
           AnyOf(<<Predicate(SignIfAny),
                   Refusal("having_without_commas", <<Star(Predicate(SignIfAny))>>)>>)>>)>>)>>

----------------------------------------------------------------------------
(* Select.                                                                 *)

Alias ==
  <<Maybe(<<AnyOf(<<Words1(<<"AS", "ID">>), Identifier,
                    Liberty("as_without_name", <<T("AS")>>)>>)>>)>>

Select ==
  <<Call("single_select"),
    Star(<<Lex({"UNION", "INTERSECT", "EXCEPT"}), Maybe(<<T("ALL")>>), Call("single_select")>>),
    Maybe(Words1(<<"ORDER", "BY">>)
          \o List(Expr \o <<Maybe(<<Lex({"ASC", "DESC"})>>),
                            Maybe(<<T("NULLS"), Lex({"FIRST", "LAST"})>>)>>))>>

SingleSelect ==
  <<T("SELECT"), Maybe(<<Lex({"ALL", "DISTINCT"})>>),
    AnyOf(<< <<T("*")>>, List(Expr \o Alias)>>),
    Maybe(<<T("FROM"), Call("from")>>),
    Maybe(<<T("WHERE")>> \o Condition),
    Maybe(Words1(<<"GROUP", "BY">>) \o List(Expr)
          \o <<Maybe(<<T("HAVING")>> \o Predicates)>>)>>

JoinKind ==
  AnyOf(<< <<Lex({"INNER", "CROSS"})>>, <<Lex({"LEFT", "RIGHT", "FULL"}), Maybe(<<T("OUTER")>>)>> >>)

From ==
  <<Call("from_item"),
    Star(<<AnyOf(<< <<Maybe(<<JoinKind>>), T("JOIN")>>,
                    Liberty("join_of_any_word", <<JoinKind>>)>>),
           AnyOf(<< <<Call("from_item")>>, Liberty("from_item_missing", <<>>)>>),
           Maybe(<<T("ON")>> \o Condition)>>)>>

FromItems == <<AnyOf(<<Name, Par(<<Call("select")>>)>>)>> \o Alias

----------------------------------------------------------------------------
Insert ==
  Words1(<<"INSERT", "INTO">>) \o Name \o <<Maybe(Colnames)>>
  \o <<AnyOf(<< <<T("VALUES")>> \o Par(List(Expr)), <<Call("select")>> >>)>>

Update ==
  <<T("UPDATE")>> \o Name
  \o <<Maybe(<<AnyOf(<<Words1(<<"AS", "ID">>),
                      Liberty("as_without_name", <<T("AS")>>),
                      Liberty("update_alias_without_as", Identifier)>>)>>)>>
  \o <<T("SET")>> \o List(Name \o <<T("=")>> \o Expr)
  \o <<Maybe(<<T("WHERE")>> \o Condition)>>

Delete ==
  <<T("DELETE"), Maybe(<<T("FROM")>>)>> \o Name
  \o <<Maybe(<<AnyOf(<< <<Maybe(<<T("AS")>>), T("ID"),
                         AnyOf(<< <<>>,
                                  Refusal("delete_alias_qualified", Words1(<<".", "ID">>))>>)>>,
                      Liberty("as_without_name", <<T("AS")>>)>>)>>)>>
  \o <<Maybe(<<T("WHERE")>> \o Condition)>>

----------------------------------------------------------------------------
Length == Par(<<T("INT")>>)

DataType ==
  <<AnyOf(<<
      <<AnyOf(<<Words1(<<"CHARACTER", "VARYING">>), Words1(<<"VARCHAR">>)>>),
        AnyOf(<<Length, Liberty("length_optional", <<>>)>>)>>,
      <<Lex({"DECIMAL", "NUMBER"}),
        Maybe(Par(<<T("INT"), AnyOf(<<Words1(<<",", "INT">>), Liberty("no_scale", <<>>)>>)>>))>>,
      <<T("TIMESTAMP"),
        AnyOf(<< <<>>, Liberty("with_time_zone", Words1(<<"WITH", "TIME", "ZONE">>))>>),
        Maybe(Length)>>,
      <<Lex({"SMALLINT", "INTEGER", "FLOAT", "DATE"})>>,
      Words1(<<"DOUBLE", "PRECISION">>)>>)>>

Column == <<Maybe(<<T("DEFAULT")>> \o Expr), Maybe(<<Maybe(<<T("NOT")>>), T("NULL")>>)>>

Constraint ==
  Words1(<<"CONSTRAINT", "ID">>)
  \o <<AnyOf(<<
      <<T("CHECK")>> \o Par(Expr),
      <<T("UNIQUE")>> \o Colnames,
      Words1(<<"PRIMARY", "KEY">>) \o Colnames,
      Words1(<<"FOREIGN", "KEY">>) \o Colnames \o <<T("REFERENCES")>> \o Name
      \o <<Maybe(Colnames),
           Maybe(Words1(<<"ON", "DELETE">>)
                 \o <<AnyOf(<< <<Lex({"RESTRICT", "CASCADE"})>>,
                               <<T("SET"), Lex({"NULL", "DEFAULT"})>>,
                               Words1(<<"NO", "ACTION">>)>>)>>)>> >>)>>

CreateTable ==
  Words1(<<"CREATE", "TABLE">>) \o Name
  \o Par(List(Identifier \o DataType \o Column)
         \o <<Maybe(<<Maybe(<<T(",")>>)>> \o List(Constraint)
                    \o <<AnyOf(<< <<>>, Liberty("trailing_comma", <<T(",")>>)>>)>>)>>)

AlterTable ==
  Words1(<<"ALTER", "TABLE">>) \o Name
  \o <<AnyOf(<<
      <<T("ADD"), Maybe(<<T("COLUMN")>>)>> \o Identifier
      \o <<AnyOf(<<DataType, Liberty("add_without_datatype", <<>>)>>)>> \o Column,
      <<Lex({"ALTER", "MODIFY"}), Maybe(<<T("COLUMN")>>)>> \o Identifier
      \o <<Maybe(DataType)>> \o Column,
      <<T("DROP"), Maybe(<<Lex({"COLUMN", "CONSTRAINT"})>>)>> \o Identifier,
      <<T("ADD")>> \o Constraint,
      <<T("RENAME"), Maybe(<<Lex({"COLUMN", "CONSTRAINT"})>> \o Identifier)>>
      \o Words1(<<"TO", "ID">>),
      Liberty("rename_nothing", <<T("RENAME")>>)>>)>>

Rules ==
  [expression |-> Expression, factor |-> Factor, negated |-> Negated, operand |-> Operand,
   booleans |-> Booleans, boolean |-> Boolean(SignIfAny), later_boolean |-> Boolean(LaterSign),
   test |-> Test(SignIfAny), select |-> Select, single_select |-> SingleSelect,
   from |-> From, from_item |-> FromItems]

Statement ==
  <<AnyOf(<<Select, Insert, Update, Delete, CreateTable, AlterTable,
            Words1(<<"CREATE", "DATABASE", "ID">>),
            Words1(<<"DROP", "TABLE">>) \o Name,
            Words1(<<"DROP", "DATABASE", "ID">>)>>),
    T("EOS")>>

(* The two grammars: what has to be taken and what may be taken.           *)
Grammars ==
  LET Of(allowed) == [rules |-> [n \in DOMAIN Rules |-> For(allowed, Rules[n])],
                      start |-> {For(allowed, Statement)}]
  IN [must |-> Of(AllRefusals \ Refusals), may |-> Of(Liberties)]

----------------------------------------------------------------------------
VARIABLES
  reading,  \* the grammar a text is held against
  open      \* all that a statement of it may have behind what was read

SyntaxInit ==
  /\ ParserInit
  /\ reading \in DOMAIN Grammars
  /\ open = Grammars[reading].start

(* A text that is none is not followed further.                            *)
ReadLexem(l) ==
  /\ open # {}
  /\ parser_parse(l)
  /\ open' = UNION {Derive(Grammars[reading].rules, st, l) : st \in open}
  /\ UNCHANGED reading

SyntaxNext ==
  \/ \E l \in Lexems : ReadLexem(l)
  \/ NextStatement /\ open' = Grammars[reading].start /\ UNCHANGED reading

syntaxVars == <<parser, reading, open>>

SyntaxSpec == SyntaxInit /\ [][SyntaxNext]_syntaxVars

----------------------------------------------------------------------------
(* The parser goes on only as long as what it has read begins a statement  *)
(* that is documented or in one of the granted Liberties, and what it      *)
(* accepts is one (parser.c:2107-2316); a number is read as an integer     *)
(* exactly where an integer belongs, and a word kept from an earlier lexem *)
(* misleads it nowhere.                                                    *)
OnlyDocumented ==
  reading = "may" =>
    /\ verdict = "parsing" => open # {}
    /\ verdict = "accepted" => <<>> \in open

(* What it turns down no statement begins with that is documented, those   *)
(* of the named Refusals apart, nor one in a Liberty it takes              *)
(* (parser.c:2107-2316).                                                   *)
AllDocumented == verdict = "rejected" => open = {}
=============================================================================
