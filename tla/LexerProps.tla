---------------------------- MODULE LexerProps ----------------------------
(***************************************************************************)
(* What the lexemes of a statement are, said of its text and not of the    *)
(* way it is read.                                                         *)
(***************************************************************************)
EXTENDS Lexer, Numerals

(* Where a lexeme ends, and the character behind it.                       *)
LastOf(l) == l.at.first + Len(l.piece) - 1
Behind(l) == text[LastOf(l) + 1]
Has(s, cs) == \E i \in DOMAIN s : s[i] \in cs
AllIn(s, cs) == \A i \in DOMAIN s : s[i] \in cs

(* A string as it is written between quotes: quotes are doubled.           *)
Quoted(s) ==
  <<"'">> \o FlattenSeq([i \in DOMAIN s |-> IF s[i] = "'" THEN <<"'", "'">> ELSE <<s[i]>>])
          \o <<"'">>

(* The lexemes are the longest pieces of text of their kind: next is the   *)
(* character behind one.                                                   *)
IsName(s, next) == AllIn(s, InName) /\ s[1] \notin DOMAIN Digits /\ next \notin InName
IsNumber(s, next) ==
  /\ s[1] \in DOMAIN Digits
  /\ next \notin DOMAIN Digits
  /\ \/ AllIn(s, DOMAIN Digits)
     \/ /\ next = "." => Has(s, {".", "e", "E"})
        /\ next \in {"e", "E"} => Has(s, {"e", "E"})
IsLexeme(type, s, v, next) ==
  CASE type = "identifier" -> IsName(s, next) /\ UpperCase(s) \notin Reserved
    [] type = "reserved"   -> IsName(s, next) /\ UpperCase(s) \in Reserved
    [] type = "number"     -> IsNumber(s, next)
    [] type = "literal"    -> s = Quoted(v) /\ next # "'"
    [] type = "token"      -> Len(s) = 1 /\ s[1] \in Specials \ (Blanks \cup {"_", "'"})
    [] type = "eos"        -> s = <<>>

(* The line and the column of the first character of a lexeme.             *)
Breaks(t, n) == {k \in 1 .. n : t[k] = "\n"}
IsPlace(t, place) ==
  /\ place.line = 1 + Cardinality(Breaks(t, place.first - 1))
  /\ place.col = place.first - Max(Breaks(t, place.first - 1) \cup {0})

(* The lexemes that were returned and the blanks between them are the text *)
(* up to the character that is looked at, and each of them is the longest  *)
(* lexeme of its type there; a string literal gives back its content; and  *)
(* the place the error messages name is where it stands in the text        *)
(* (lexer.c:440-523, 750-864).                                             *)
Tokenized ==
  pc \in {"start", "done"} =>
    /\ \A i \in DOMAIN lexems :
         LET l == lexems[i] IN
         /\ IsLexeme(l.type, l.piece, l.value, Behind(l))
         /\ l.piece = SubSeq(text, l.at.first, LastOf(l))
         /\ i > 1 => LastOf(lexems[i - 1]) < l.at.first
         /\ l.type # "eos" => IsPlace(text, l.at)
    /\ \A k \in 1 .. Len(text) - 1 :
         \/ text[k] \in Blanks
         \/ \E i \in DOMAIN lexems : k \in lexems[i].at.first .. LastOf(lexems[i])

(* The digits of s before n, each times ten to its weight: the point is    *)
(* before the character at point, and the digit before the point has the   *)
(* weight w.                                                               *)
Weight(k, point, w) == (IF k < point THEN point - 1 - k ELSE point - k) + w
Term(c, weight) == IF c \in {".", "0"} THEN 0 ELSE Digits[c] * Ten(weight)
Placed(s, point, w, n) ==
  Linear(0, 1, [k \in 1 .. n |-> Term(s[k], Weight(k, point, w))], n)

(* The exponent that is written behind the e, which is at exp.             *)
ExponentDigits(s, exp, n) == Linear(0, 10, [k \in 1 .. n |-> Digits[s[exp + 1 + k]]], n)
WrittenExponent(s, exp) ==
  ExponentDigits(s, exp, Len(s) - exp - 1) * (IF s[exp + 1] = "-" THEN -1 ELSE 1)

(* What a number is worth, scaled by ten to scale.                         *)
IndexOr(s, cs, default) == Min({i \in DOMAIN s : s[i] \in cs} \cup {default})
WorthOf(s, scale) ==
  LET exp   == IndexOr(s, {"e", "E"}, Len(s) + 1)
      point == IndexOr(s, {"."}, exp)
      e     == IF exp > Len(s) THEN 0 ELSE WrittenExponent(s, exp)
  IN Placed(s, point, e + scale, exp - 1)

(* A number is what its text says, to the last digit, whatever the zeros,  *)
(* the point and the exponent.                                             *)
NumbersExact ==
  \A i \in DOMAIN lexems :
    LET v == lexems[i].value
        e == v.sign * v.d - v.e
        scale == Positions - MinExp
    IN lexems[i].type = "number" =>
         v.m * Ten(e + scale) = WorthOf(lexems[i].piece, scale)

(* An integer stays within its type: the check before each digit (line     *)
(* 629) leaves room for any digit.                                         *)
IntegerFits ==
  num_mode = 1 /\ pc \in {"zeros", "digits"} => value.m \in 0 .. MaxInteger

============================================================================
