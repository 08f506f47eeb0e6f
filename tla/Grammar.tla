------------------------------ MODULE Grammar ------------------------------
(***************************************************************************)
(* Grammars as data: what is still to be read is a stack of items.  An     *)
(* item of a predictive parser decides on the current lexem alone, an item *)
(* of a grammar in a document may leave several ways open.                 *)
(***************************************************************************)
EXTENDS Naturals, Sequences

Item(kind, on, ways, name) == [kind |-> kind, on |-> on, ways |-> ways, name |-> name]

(* Both: a lexem of L; all that a procedure or a nonterminal reads.        *)
Lex(L)  == Item("lex", L, <<>>, "")
Call(n) == Item("call", {}, <<>>, n)

(* Predictive: s when the lexem is one of L, and otherwise e; s as long as *)
(* the lexem is one of L; s when the word read last is one of L.           *)
At(L, s, e) == Item("at", L, <<s, e>>, "")
While(L, s) == Item("while", L, <<s>>, "")
Word(L, s)  == Item("word", L, <<s, <<>>>>, "")
Opt(L, s)   == At(L, <<Lex(L)>> \o s, <<>>)

(* The lexer reads numbers as integers from here on, or as decimals.       *)
IntegerMode(b) == Item(IF b THEN "int on" ELSE "int off", {}, <<>>, "")

(* Open: any of the ways; s any number of times; s for who allows name,    *)
(* and otherwise e.                                                        *)
AnyOf(ways) == Item("any", {}, ways, "")
Maybe(s)    == AnyOf(<<s, <<>>>>)
Star(s)     == Item("star", {}, <<s>>, "")
Named(name, s, e) == Item("named", {name}, <<s, e>>, "")

----------------------------------------------------------------------------
(* A predictive parser in stack st gets lexem l, read in integer mode or   *)
(* not; word is the reserved word read last.  It goes on until it has used *)
(* l up, or fails.                                                         *)
Failed == <<Lex({})>>

RECURSIVE Advance(_, _, _, _, _)
Advance(Body, st, l, word, int) ==
  LET top  == Head(st)
      rest == Tail(st)
      Go(s) == Advance(Body, s, l, word, int)
  IN IF st = <<>> THEN [stack |-> Failed, int |-> int]
     ELSE CASE top.kind = "lex" ->
                 [stack |-> IF l \in top.on THEN rest ELSE Failed, int |-> int]
            [] top.kind = "at" ->
                 Go((IF l \in top.on THEN top.ways[1] ELSE top.ways[2]) \o rest)
            [] top.kind = "while" ->
                 Go(IF l \in top.on THEN top.ways[1] \o st ELSE rest)
            [] top.kind = "word" ->
                 Go((IF word \in top.on THEN top.ways[1] ELSE top.ways[2]) \o rest)
            [] top.kind = "call" -> Go(Body[top.name] \o rest)
            [] top.kind = "int on"  -> Advance(Body, rest, l, word, TRUE)
            [] top.kind = "int off" -> Advance(Body, rest, l, word, FALSE)

(* A documented grammar for who allows the alternatives of these names.    *)
RECURSIVE For(_, _)
For(allowed, s) ==
  IF s = <<>> THEN <<>>
  ELSE LET ways == [i \in DOMAIN Head(s).ways |-> For(allowed, Head(s).ways[i])]
       IN (IF Head(s).kind # "named" THEN <<[Head(s) EXCEPT !.ways = ways]>>
           ELSE IF Head(s).on \subseteq allowed THEN ways[1] ELSE ways[2])
          \o For(allowed, Tail(s))

(* All that may be left to read in it after l.                             *)
RECURSIVE Derive(_, _, _)
Derive(Rules, st, l) ==
  LET top  == Head(st)
      rest == Tail(st)
  IN IF st = <<>> THEN {}
     ELSE CASE top.kind = "lex" -> IF l \in top.on THEN {rest} ELSE {}
            [] top.kind = "any" ->
                 UNION {Derive(Rules, top.ways[i] \o rest, l) : i \in DOMAIN top.ways}
            [] top.kind = "star" ->
                 Derive(Rules, rest, l) \cup Derive(Rules, top.ways[1] \o st, l)
            [] top.kind = "call" -> Derive(Rules, Rules[top.name] \o rest, l)
=============================================================================
