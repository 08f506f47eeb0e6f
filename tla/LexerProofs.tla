---------------------------- MODULE LexerProofs ----------------------------
(***************************************************************************)
(* An integer that is read stays within its type, whatever the type's      *)
(* largest value, the statement and the parser's changes of mode; the      *)
(* lexemes of a statement are its text, with the blanks between them; and  *)
(* a number is worth what its text says.                                   *)
(***************************************************************************)
EXTENDS LexerProps, SequenceLemmas, SequenceTheorems, FiniteSetTheorems

InWhole == pc \in {"zeros", "digits"}

(* The mode is one of the two, and changes between two lexemes only, so    *)
(* that every digit of a number is counted in the same way.                *)
WholePart ==
  /\ num_mode \in {0, 1}
  /\ InWhole /\ num_mode = 1 => value.m \in 0 .. MaxInteger

LEMMA InitWhole == LexInit => WholePart
BY DEF LexInit, WholePart, InWhole

(* The check before a digit leaves room for it: ten times the value and    *)
(* nine more.                                                              *)
LEMMA RoomForADigit ==
  ASSUME NEW m \in 0 .. MaxInteger, NEW digit \in 0 .. 9, m <= (MaxInteger - 10) \div 10
  PROVE  10 * m + digit \in 0 .. MaxInteger
<1>1. MaxInteger \in Nat /\ MaxInteger > 10
  BY LexerAssumption DEF LexerAssumption
<1>2. m \in Nat /\ digit \in Nat /\ digit <= 9
  OBVIOUS
<1>3. ((MaxInteger - 10) \div 10) * 10 <= MaxInteger - 10
  BY <1>1
<1>4. 10 * m + digit <= MaxInteger
  BY <1>1, <1>2, <1>3
<1> QED BY <1>1, <1>2, <1>4

(* A step that reads a character is somewhere it was told to be, or the    *)
(* session has ended.                                                      *)
LEMMA NextCharGoes ==
  ASSUME NEW to, lexer_next_ch(to)
  PROVE  pc' \in {to, "failed"}
BY DEF lexer_next_ch, LastCh, OneCh, BadCh

(* A digit of an integer.                                                  *)
LEMMA DigitKeepsWhole == WholePart /\ WholeDigit => WholePart'
<1> SUFFICES ASSUME WholePart, WholeDigit PROVE WholePart'
  OBVIOUS
<1>1. pc = "digits" /\ AtDigit
  BY DEF WholeDigit
<1>2. CASE Full /\ lexer_report_error(IF num_mode = 1 THEN "integer" ELSE "mantissa")
  BY <1>2 DEF lexer_report_error, WholePart, InWhole
<1>3. CASE ~ Full /\ Take(WithDigit(0), "digits")
  <2>1. value' = WithDigit(0) /\ num_mode' = num_mode
    BY <1>3 DEF Take
  <2>2. value'.m = 10 * value.m + Digits[ch]
    BY <2>1 DEF WithDigit
  <2>3. ASSUME num_mode = 1 PROVE value'.m \in 0 .. MaxInteger
    <3>1. value.m \in 0 .. MaxInteger
      BY <1>1, <2>3 DEF WholePart, InWhole
    <3>2. Digits[ch] \in 0 .. 9
      BY <1>1, LexerAssumption DEF AtDigit, LexerAssumption
    <3>3. MaxInteger \in Nat /\ MaxInteger > 10
      BY LexerAssumption DEF LexerAssumption
    <3>4. ~ (value.m > (MaxInteger - 10) \div 10)
      BY <1>3, <2>3 DEF Full, IntegerFull
    <3>5. value.m <= (MaxInteger - 10) \div 10
      BY <3>1, <3>3, <3>4
    <3>6. 10 * value.m + Digits[ch] \in 0 .. MaxInteger
      BY <3>1, <3>2, <3>5, RoomForADigit
    <3> QED BY <2>2, <3>6
  <2> QED BY <2>1, <2>3 DEF WholePart
<1> QED BY <1>2, <1>3 DEF WholeDigit

(* A number begins with nothing read, and in no other way.                 *)
LEMMA BeginKeepsWhole == WholePart /\ lexer_next => WholePart'
<1> SUFFICES ASSUME WholePart, lexer_next PROVE WholePart'
  OBVIOUS
<1>1. CASE Begin("zeros", NoNumber)
  <2>1. value' = NoNumber /\ num_mode' = num_mode
    BY <1>1 DEF Begin
  <2>2. MaxInteger \in Nat
    BY LexerAssumption DEF LexerAssumption
  <2>3. value'.m = 0
    BY <2>1 DEF NoNumber
  <2>4. 0 \in 0 .. MaxInteger
    BY <2>2
  <2>5. value'.m \in 0 .. MaxInteger
    BY <2>3, <2>4
  <2> QED BY <2>1, <2>5 DEF WholePart
<1>2. CASE \E state \in {"identifier", "quote", "token", "eos"} : Begin(state, <<>>)
  BY <1>2 DEF Begin, WholePart, InWhole
<1> QED BY <1>1, <1>2 DEF lexer_next

LEMMA ZeroKeepsWhole == WholePart /\ LeadingZero => WholePart'
<1> SUFFICES ASSUME WholePart, LeadingZero PROVE WholePart'
  OBVIOUS
<1>1. pc = "zeros" /\ value' = value /\ num_mode' = num_mode
  BY DEF LeadingZero, Take
<1> QED BY <1>1 DEF WholePart, InWhole

(* Every other step is in no number, or leaves the whole part of one.      *)
LEMMA OthersKeepWhole ==
  ASSUME WholePart, LexNext, ~ WholeDigit, ~ lexer_next, ~ LeadingZero
  PROVE  WholePart'
<1>1. CASE lexer_num_mode_integer
  BY <1>1 DEF lexer_num_mode_integer, WholePart, InWhole
<1>2. CASE lexer_reset
  BY <1>2 DEF lexer_reset, WholePart, InWhole
<1>3. CASE NextStatement
  BY <1>3 DEF NextStatement, WholePart, InWhole
<1>4. CASE FirstCh \/ SkipBlank
  <2>1. num_mode' = num_mode /\ pc' \in {"start", "failed"}
    BY <1>4, NextCharGoes DEF FirstCh, SkipBlank
  <2> QED BY <2>1 DEF WholePart, InWhole
<1>5. CASE EndOfText \/ TokenEnd \/ IdentifierEnd \/ LiteralEnd
  BY <1>5 DEF EndOfText, TokenEnd, IdentifierEnd, LiteralEnd, Return, WholePart, InWhole
<1>6. CASE Token \/ Identifier \/ Point \/ FractionDigit \/ Exponent \/ Quote \/ InsideQuote
  <2>1. num_mode' = num_mode /\ pc' \notin {"zeros", "digits"}
    BY <1>6, NextCharGoes
       DEF Token, Identifier, Point, FractionDigit, Exponent, Quote, InsideQuote, Take,
           lexer_report_error
  <2> QED BY <2>1 DEF WholePart, InWhole
<1>7. CASE Sign \/ ExponentDigit \/ Content
  <2>1. num_mode' = num_mode /\ pc' \notin {"zeros", "digits"}
    BY <1>7, NextCharGoes DEF Sign, ExponentDigit, Content, Take, lexer_report_error
  <2> QED BY <2>1 DEF WholePart, InWhole
<1>8. CASE NameTooLong \/ Unclosed
  BY <1>8 DEF NameTooLong, Unclosed, lexer_report_error, WholePart, InWhole
<1>9. CASE NumberEnd
  <2>1. num_mode' = num_mode /\ pc' \notin {"zeros", "digits"}
    BY <1>9 DEF NumberEnd, Return, lexer_report_error
  <2> QED BY <2>1 DEF WholePart, InWhole
<1> QED BY <1>1, <1>2, <1>3, <1>4, <1>5, <1>6, <1>7, <1>8, <1>9 DEF LexNext

LEMMA NextKeepsWhole == WholePart /\ [LexNext]_lexerVars => WholePart'
<1> SUFFICES ASSUME WholePart, [LexNext]_lexerVars PROVE WholePart'
  OBVIOUS
<1>1. CASE UNCHANGED lexerVars
  BY <1>1 DEF lexerVars, WholePart, InWhole
<1>2. CASE LexNext
  BY <1>2, DigitKeepsWhole, BeginKeepsWhole, ZeroKeepsWhole, OthersKeepWhole
<1> QED BY <1>1, <1>2

(* lexer.c:629 checks the integer before a digit is added to it, with a    *)
(* margin of ten: no sequence of digits, statements and changes of mode    *)
(* takes it over the largest value of its type.                            *)
THEOREM IntegersFit == LexSpec => []IntegerFits
<1>1. WholePart => IntegerFits
  BY DEF WholePart, InWhole, IntegerFits
<1> QED BY <1>1, InitWhole, NextKeepsWhole, PTL DEF LexSpec

----------------------------------------------------------------------------
(* The lexemes and the text.                                               *)

Delivered == Chars \cup {Eos}
InLexeme == {"identifier", "token", "token_end", "zeros", "digits", "fraction", "sign",
             "exponent", "quote", "inside", "closing", "eos"}
Going == {"start"} \cup InLexeme

(* s stands in the text t, from first on.                                  *)
WrittenAt(t, s, first) ==
  /\ first \in Nat /\ first + Len(s) <= Len(t)
  /\ \A i \in 1 .. Len(s) : s[i] = t[first + i - 1]

(* The line and the column behind the first n characters of t.             *)
PlaceIs(t, n, l, c) ==
  /\ l = 1 + Cardinality(Breaks(t, n))
  /\ c = n - Max(Breaks(t, n) \cup {0})

(* A lexeme is what it is by the text alone.                               *)
Stands(t, l) ==
  /\ l.piece \in Seq(Delivered)
  /\ WrittenAt(t, l.piece, l.at.first)
  /\ IsLexeme(l.type, l.piece, l.value, t[l.at.first + Len(l.piece)])
  /\ l.type # "eos" => l.at.first >= 1 /\ l.at.first + Len(l.piece) \in 1 .. Len(t) /\ IsPlace(t, l.at)

Covered(t, ls, k) ==
  \/ t[k] \in Blanks
  \/ \E i \in DOMAIN ls : k \in ls[i].at.first .. LastOf(ls[i])

(* The lexemes ls, with the blanks between them, are t before n.           *)
Lexed(t, ls, n) ==
  /\ \A i \in DOMAIN ls : Stands(t, ls[i]) /\ (i > 1 => LastOf(ls[i - 1]) < ls[i].at.first)
  /\ \A k \in 1 .. n - 1 : Covered(t, ls, k)

EndsBefore(ls, n) == ls # <<>> => LastOf(ls[Len(ls)]) < n

(* One character more.                                                     *)
Longer(t, t2, x) ==
  /\ t \in Seq(Delivered) /\ x \in Delivered /\ t2 \in Seq(Delivered)
  /\ Len(t2) = Len(t) + 1 /\ t2[Len(t) + 1] = x
  /\ \A i \in 1 .. Len(t) : t2[i] = t[i]

LEMMA AppendIsLonger ==
  ASSUME NEW t \in Seq(Delivered), NEW x \in Delivered
  PROVE  Longer(t, Append(t, x), x)
BY AppendProperties DEF Longer

LEMMA BreaksKept ==
  ASSUME NEW t, NEW t2, NEW x, Longer(t, t2, x), NEW n \in Int, n <= Len(t)
  PROVE  Breaks(t2, n) = Breaks(t, n)
<1>1. Len(t) \in Nat
  BY LenProperties DEF Longer
<1>2. \A k \in 1 .. n : t2[k] = t[k]
  BY <1>1 DEF Longer
<1> QED BY <1>2 DEF Breaks

LEMMA BreaksAreFew ==
  ASSUME NEW t, NEW n \in Nat
  PROVE  /\ IsFiniteSet(Breaks(t, n)) /\ Cardinality(Breaks(t, n)) \in Nat
         /\ Breaks(t, n) \in SUBSET (1 .. n)
<1>1. Breaks(t, n) \in SUBSET (1 .. n)
  BY DEF Breaks
<1>2. IsFiniteSet(1 .. n)
  BY FS_Interval
<1>3. IsFiniteSet(Breaks(t, n))
  BY <1>1, <1>2, FS_Subset
<1> QED BY <1>1, <1>3, FS_CardinalityType

LEMMA LastBreak ==
  ASSUME NEW n \in Nat, NEW S \in SUBSET (1 .. n)
  PROVE  /\ Max(S \cup {0}) \in 0 .. n
         /\ Max(S \cup {n + 1} \cup {0}) = n + 1
<1>1. n + 1 \in Nat /\ S \cup {0} \in SUBSET (0 .. n) /\ S \cup {0} # {}
  OBVIOUS
<1>2. Max(S \cup {0}) \in S \cup {0}
  BY <1>1, LargestOne
<1>3. PICK R : R = S \cup {n + 1} \cup {0}
  OBVIOUS
<1>4. PICK m : m = n + 1
  OBVIOUS
<1>5. m \in Nat /\ m \in R /\ R \in SUBSET (0 .. m) /\ R # {}
  BY <1>1, <1>3, <1>4
<1>6. Max(R) \in R /\ \A y \in R : Max(R) >= y
  BY <1>5, LargestOne
<1>7. Max(R) = m
  <2>1. PICK y : y = Max(R)
    OBVIOUS
  <2>2. y \in 0 .. m /\ y >= m
    BY <1>5, <1>6, <2>1
  <2> QED BY <1>5, <2>1, <2>2
<1> QED BY <1>1, <1>2, <1>3, <1>4, <1>7

(* The place of the next character.                                        *)
LEMMA PlaceOfNext ==
  ASSUME NEW t, NEW t2, NEW x, Longer(t, t2, x), NEW l, NEW c, PlaceIs(t, Len(t), l, c)
  PROVE  PlaceIs(t2, Len(t2), IF x = "\n" THEN l + 1 ELSE l, IF x = "\n" THEN 0 ELSE c + 1)
<1>1. PICK n \in Nat : n = Len(t)
  BY LenProperties DEF Longer
<1>2. PICK S : S = Breaks(t, n)
  OBVIOUS
<1>3. PICK R : R = Breaks(t2, n + 1)
  OBVIOUS
<1>4. S = Breaks(t2, n)
  BY <1>1, <1>2, BreaksKept
<1>5. IsFiniteSet(S) /\ Cardinality(S) \in Nat /\ S \in SUBSET (1 .. n)
  BY <1>2, BreaksAreFew
<1>6. t2[n + 1] = x /\ Len(t2) = n + 1
  BY <1>1 DEF Longer
<1>7. l = 1 + Cardinality(S) /\ c = n - Max(S \cup {0})
  BY <1>1, <1>2 DEF PlaceIs
<1>8. CASE x = "\n"
  <2>1. R = S \cup {n + 1}
    BY <1>3, <1>4, <1>6, <1>8 DEF Breaks
  <2>2. Cardinality(R) = Cardinality(S) + 1
    BY <1>5, <2>1, FS_AddElement
  <2>3. Max(R \cup {0}) = n + 1
    BY <1>5, <2>1, LastBreak
  <2>4. l + 1 = 1 + Cardinality(R) /\ 0 = (n + 1) - Max(R \cup {0})
    BY <1>5, <1>7, <2>2, <2>3
  <2> QED BY <1>3, <1>6, <1>8, <2>4 DEF PlaceIs
<1>9. CASE x # "\n"
  <2>1. R = S
    BY <1>3, <1>4, <1>6, <1>9 DEF Breaks
  <2>2. Max(S \cup {0}) \in 0 .. n
    BY <1>5, LastBreak
  <2>3. c + 1 = (n + 1) - Max(R \cup {0})
    BY <1>7, <2>1, <2>2
  <2> QED BY <1>3, <1>6, <1>7, <1>9, <2>1, <2>3 DEF PlaceIs
<1> QED BY <1>8, <1>9

(* A character that breaks no line stands at the place behind it.          *)
LEMMA PlaceOfThis ==
  ASSUME NEW t, NEW n \in Nat, n >= 1, t[n] # "\n", NEW l, NEW c, PlaceIs(t, n, l, c),
         NEW place, place.line = l, place.col = c, place.first = n
  PROVE  IsPlace(t, place)
<1>1. Breaks(t, n - 1) = Breaks(t, n)
  BY DEF Breaks
<1> QED BY <1>1 DEF PlaceIs, IsPlace

LEMMA StandsInLonger ==
  ASSUME NEW t, NEW t2, NEW x, Longer(t, t2, x), NEW l, Stands(t, l)
  PROVE  Stands(t2, l)
<1>1. PICK n \in Nat : n = Len(t)
  BY LenProperties DEF Longer
<1>2. PICK first : first = l.at.first
  OBVIOUS
<1>3. PICK k \in Nat : k = Len(l.piece)
  BY LenProperties DEF Stands
<1>4. first \in Nat /\ first + k <= n /\ \A i \in 1 .. k : l.piece[i] = t[first + i - 1]
  BY <1>1, <1>2, <1>3 DEF Stands, WrittenAt
<1>5. Len(t2) = n + 1 /\ \A i \in 1 .. n : t2[i] = t[i]
  BY <1>1 DEF Longer
<1>6. k # 0 => first >= 1
  <2>1. CASE l.type # "eos"
    BY <1>2, <2>1 DEF Stands
  <2>2. CASE l.type = "eos"
    <3>1. l.piece = <<>>
      BY <2>2 DEF Stands, IsLexeme
    <3> QED BY <1>3, <3>1
  <2> QED BY <2>1, <2>2
<1>7. WrittenAt(t2, l.piece, first)
  <2>1. \A i \in 1 .. k : l.piece[i] = t2[first + i - 1]
    <3> TAKE i \in 1 .. k
    <3>1. first + i - 1 \in 1 .. n
      BY <1>4, <1>6
    <3> QED BY <1>4, <1>5, <3>1
  <2>2. first + k <= n + 1
    BY <1>4
  <2> QED BY <1>3, <1>4, <1>5, <2>1, <2>2 DEF WrittenAt
<1>8. CASE l.type = "eos"
  <2>1. l.piece = <<>>
    BY <1>8 DEF Stands, IsLexeme
  <2>2. IsLexeme(l.type, l.piece, l.value, t2[first + Len(l.piece)])
    BY <1>8, <2>1 DEF IsLexeme
  <2> QED BY <1>2, <1>7, <1>8, <2>2 DEF Stands
<1>9. CASE l.type # "eos"
  <2>1. first >= 1 /\ first + k \in 1 .. n /\ IsPlace(t, l.at)
    BY <1>1, <1>2, <1>3, <1>9 DEF Stands
  <2>2. t2[first + k] = t[first + k] /\ first + k \in 1 .. Len(t2)
    BY <1>5, <2>1
  <2>3. Breaks(t2, first - 1) = Breaks(t, first - 1)
    <3>1. first - 1 \in Int /\ first - 1 <= Len(t)
      BY <1>1, <1>4, <2>1
    <3> QED BY <3>1, BreaksKept
  <2>4. IsPlace(t2, l.at)
    BY <1>2, <2>1, <2>3 DEF IsPlace
  <2> QED BY <1>2, <1>3, <1>7, <1>9, <2>1, <2>2, <2>4 DEF Stands
<1> QED BY <1>8, <1>9

LEMMA LexedInLonger ==
  ASSUME NEW t, NEW t2, NEW x, Longer(t, t2, x), NEW ls, NEW n \in Int, n <= Len(t) + 1,
         Lexed(t, ls, n)
  PROVE  Lexed(t2, ls, n)
<1>1. Len(t) \in Nat /\ \A k \in 1 .. Len(t) : t2[k] = t[k]
  BY LenProperties DEF Longer
<1>2. \A i \in DOMAIN ls : Stands(t2, ls[i])
  BY StandsInLonger DEF Lexed
<1>3. \A k \in 1 .. n - 1 : Covered(t2, ls, k)
  <2> TAKE k \in 1 .. n - 1
  <2>1. k \in 1 .. Len(t)
    BY <1>1
  <2>2. Covered(t, ls, k) /\ t2[k] = t[k]
    BY <1>1, <2>1 DEF Lexed
  <2> QED BY <2>2 DEF Covered
<1> QED BY <1>2, <1>3 DEF Lexed

(* A blank between two lexemes.                                            *)
LEMMA LexedToo ==
  ASSUME NEW t, NEW ls, NEW n \in Nat, Lexed(t, ls, n), n >= 1, t[n] \in Blanks
  PROVE  Lexed(t, ls, n + 1)
<1>1. \A k \in 1 .. (n + 1) - 1 : Covered(t, ls, k)
  <2> TAKE k \in 1 .. (n + 1) - 1
  <2>1. CASE k = n
    BY <2>1 DEF Covered
  <2>2. CASE k # n
    BY <2>2 DEF Lexed
  <2> QED BY <2>1, <2>2
<1> QED BY <1>1 DEF Lexed

AnySeq(ls) == \E S : ls \in Seq(S)

(* One lexeme more.                                                        *)
LEMMA LexedAppended ==
  ASSUME NEW t \in Seq(Delivered), NEW ls, AnySeq(ls), NEW l, Lexed(t, ls, l.at.first), Stands(t, l),
         EndsBefore(ls, l.at.first), l.at.first + Len(l.piece) = Len(t)
  PROVE  /\ Lexed(t, Append(ls, l), Len(t)) /\ EndsBefore(Append(ls, l), Len(t))
         /\ AnySeq(Append(ls, l))
<1>1. PICK S : ls \in Seq(S)
  BY DEF AnySeq
<1>2. PICK T : T = S \cup {l}
  OBVIOUS
<1>3. ls \in Seq(T) /\ l \in T
  BY <1>1, <1>2, SeqMonotonic
<1>4. PICK m \in Nat : m = Len(ls)
  BY <1>3, LenProperties
<1>5. PICK ls2 : ls2 = Append(ls, l)
  OBVIOUS
<1>6. ls2 \in Seq(T) /\ ls2 # <<>> /\ Len(ls2) = m + 1 /\ ls2[m + 1] = l /\ \A i \in 1 .. m : ls2[i] = ls[i]
  BY <1>3, <1>4, <1>5, AppendProperties
<1>7. DOMAIN ls = 1 .. m /\ DOMAIN ls2 = 1 .. m + 1
  BY <1>3, <1>4, <1>6, LenProperties
<1>8. AnySeq(ls2)
  BY <1>6 DEF AnySeq
<1>9. PICK first \in Nat : first = l.at.first
  BY DEF Stands, WrittenAt
<1>10. PICK k \in Nat : k = Len(l.piece)
  BY LenProperties DEF Stands
<1>11. first + k = Len(t) /\ LastOf(l) = first + k - 1
  BY <1>9, <1>10 DEF LastOf
<1>12. EndsBefore(ls2, Len(t))
  BY <1>6, <1>11 DEF EndsBefore
<1>13. \A i \in 1 .. m + 1 : Stands(t, ls2[i])
  <2> TAKE i \in 1 .. m + 1
  <2>1. CASE i = m + 1
    BY <1>6, <2>1
  <2>2. CASE i # m + 1
    BY <1>6, <1>7, <2>2 DEF Lexed
  <2> QED BY <2>1, <2>2
<1>14. \A i \in 1 .. m + 1 : i > 1 => LastOf(ls2[i - 1]) < ls2[i].at.first
  <2> TAKE i \in 1 .. m + 1
  <2> HAVE i > 1
  <2>1. CASE i = m + 1
    <3>1. m \in 1 .. m /\ ls # <<>> /\ ls2[i - 1] = ls[m] /\ ls2[i] = l
      BY <1>4, <1>6, <2>1
    <3>2. LastOf(ls[m]) < l.at.first
      BY <1>4, <3>1 DEF EndsBefore
    <3> QED BY <3>1, <3>2
  <2>2. CASE i # m + 1
    <3>1. i \in 1 .. m /\ i - 1 \in 1 .. m
      BY <2>2
    <3>2. ls2[i - 1] = ls[i - 1] /\ ls2[i] = ls[i]
      BY <1>6, <3>1
    <3>3. LastOf(ls[i - 1]) < ls[i].at.first
      BY <1>7, <3>1 DEF Lexed
    <3> QED BY <3>2, <3>3
  <2> QED BY <2>1, <2>2
<1>15. \A j \in 1 .. Len(t) - 1 : Covered(t, ls2, j)
  <2> TAKE j \in 1 .. Len(t) - 1
  <2>1. CASE j < first
    <3>1. j \in 1 .. first - 1
      BY <2>1
    <3>2. Covered(t, ls, j)
      BY <1>9, <3>1 DEF Lexed
    <3> QED BY <1>6, <1>7, <3>2 DEF Covered
  <2>2. CASE ~ (j < first)
    <3>1. j \in first .. LastOf(l)
      BY <1>11, <2>2
    <3>2. m + 1 \in DOMAIN ls2
      BY <1>7
    <3> QED BY <1>6, <1>9, <3>1, <3>2 DEF Covered
  <2> QED BY <2>1, <2>2
<1> QED BY <1>5, <1>7, <1>8, <1>12, <1>13, <1>14, <1>15 DEF Lexed

----------------------------------------------------------------------------
(* String literals.                                                        *)

Doubling(s) == [i \in DOMAIN s |-> IF s[i] = "'" THEN <<"'", "'">> ELSE <<s[i]>>]
Doubled(s) == FlattenSeq(Doubling(s))

LEMMA NothingDoubled == Doubled(<<>>) = <<>>
<1>1. Len(Doubling(<<>>)) = 0
  BY DEF Doubling
<1>2. FlattenSeq(Doubling(<<>>)) = <<>>
  BY <1>1 DEF FlattenSeq
<1> QED BY <1>2 DEF Doubled

(* A character more of the content, once or twice as it is written.        *)
LEMMA DoubledGrows ==
  ASSUME NEW s \in Seq(Delivered), NEW x \in Delivered
  PROVE  Doubled(Append(s, x)) = Doubled(s) \o (IF x = "'" THEN <<"'", "'">> ELSE <<x>>)
<1>1. PICK n \in Nat : n = Len(s)
  BY LenProperties
<1>2. PICK r : r = Append(s, x)
  OBVIOUS
<1>3. r \in Seq(Delivered) /\ Len(r) = n + 1 /\ r[n + 1] = x /\ \A i \in 1 .. n : r[i] = s[i]
  BY <1>1, <1>2, AppendProperties
<1>4. DOMAIN s = 1 .. n /\ DOMAIN r = 1 .. n + 1
  BY <1>1, <1>3, LenProperties
<1>5. PICK d : d = Doubling(s)
  OBVIOUS
<1>6. PICK e : e = Doubling(r)
  OBVIOUS
<1>7. Len(d) = n /\ Len(e) = n + 1
  BY <1>4, <1>5, <1>6 DEF Doubling
<1>8. e[n + 1] = (IF x = "'" THEN <<"'", "'">> ELSE <<x>>)
  BY <1>3, <1>4, <1>6 DEF Doubling
<1>9. \A i \in 1 .. n : d[i] = e[i]
  BY <1>3, <1>4, <1>5, <1>6 DEF Doubling
<1>10. CASE n = 0
  <2>1. s = <<>>
    BY <1>1, <1>10, EmptySeq
  <2>2. FlattenSeq(e) = e[1]
    BY <1>7, <1>10, FlattenOne
  <2>3. Doubled(s) = <<>>
    BY <2>1, NothingDoubled
  <2>4. PICK y : y = (IF x = "'" THEN <<"'", "'">> ELSE <<x>>)
    OBVIOUS
  <2>5. <<"'", "'">> \in Seq({"'", x}) /\ <<x>> \in Seq({"'", x})
    OBVIOUS
  <2>6. <<>> \o y = y
    <3>1. y \in Seq({"'", x})
      BY <2>4, <2>5
    <3> QED BY <3>1, ConcatEmptySeq
  <2>7. FlattenSeq(e) = y
    BY <1>8, <1>10, <2>2, <2>4
  <2> QED BY <1>2, <1>6, <2>3, <2>4, <2>6, <2>7 DEF Doubled
<1>11. CASE n # 0
  <2>1. n >= 1
    BY <1>11
  <2>2. FlattenSeq(e) = FlattenSeq(d) \o e[n + 1]
    BY <1>7, <1>9, <2>1, FlattenAppended
  <2> QED BY <1>2, <1>5, <1>6, <1>8, <2>2 DEF Doubled
<1> QED BY <1>10, <1>11

LEMMA QuoteDelivered == "'" \in Delivered /\ Eos # "'" /\ "'" \notin Blanks
BY LexerAssumption, CharTypesAssumption DEF LexerAssumption, CharTypesAssumption, Delivered, Chars, Blanks

(* Doubled(s) is text whatever s is, being of one character more at a time. *)
LEMMA DoubledIsText ==
  ASSUME NEW s \in Seq(Delivered), NEW x \in Delivered, Doubled(s) \in Seq(Delivered)
  PROVE  Doubled(Append(s, x)) \in Seq(Delivered)
<1>1. PICK y : y = (IF x = "'" THEN <<"'", "'">> ELSE <<x>>)
  OBVIOUS
<1>2. "'" \in Delivered
  BY QuoteDelivered
<1>3. <<"'", "'">> \in Seq(Delivered) /\ <<x>> \in Seq(Delivered)
  BY <1>2
<1>4. y \in Seq(Delivered)
  BY <1>1, <1>3
<1>5. Doubled(Append(s, x)) = Doubled(s) \o y
  BY <1>1, DoubledGrows
<1> QED BY <1>4, <1>5, ConcatProperties

(* What is written of a literal whose content is s so far, in quotes.      *)
Opened(s) == <<"'">> \o Doubled(s)

LEMMA OpenedGrows ==
  ASSUME NEW s \in Seq(Delivered), Doubled(s) \in Seq(Delivered), NEW x \in Delivered, x # "'"
  PROVE  Opened(Append(s, x)) = Append(Opened(s), x)
<1>1. PICK d \in Seq(Delivered) : d = Doubled(s)
  OBVIOUS
<1>2. <<"'">> \in Seq(Delivered) /\ <<x>> \in Seq(Delivered)
  BY QuoteDelivered
<1>3. PICK q \in Seq(Delivered) : q = <<"'">>
  BY <1>2
<1>4. PICK y \in Seq(Delivered) : y = <<x>>
  BY <1>2
<1>5. Doubled(Append(s, x)) = d \o y
  BY <1>1, <1>4, DoubledGrows
<1>6. q \o (d \o y) = (q \o d) \o y
  BY ConcatAssociative, SMTT(60)
<1>7. q \o d \in Seq(Delivered)
  BY ConcatProperties
<1>8. (q \o d) \o y = Append(q \o d, x)
  BY <1>4, <1>7, AppendIsConcat
<1> QED BY <1>1, <1>3, <1>5, <1>6, <1>8 DEF Opened

LEMMA Regrouped ==
  ASSUME NEW q \in Seq(Delivered), NEW d \in Seq(Delivered)
  PROVE  q \o (d \o (q \o q)) = ((q \o d) \o q) \o q
<1>1. PICK y \in Seq(Delivered) : y = q \o q
  BY ConcatProperties
<1>2. q \o (d \o y) = (q \o d) \o y
  BY ConcatAssociative, SMTT(60)
<1>3. PICK o \in Seq(Delivered) : o = q \o d
  BY ConcatProperties
<1>4. o \o (q \o q) = (o \o q) \o q
  BY ConcatAssociative, SMTT(60)
<1> QED BY <1>1, <1>2, <1>3, <1>4

(* The second of two quotes is one character of the content.               *)
LEMMA OpenedGrowsQuote ==
  ASSUME NEW s \in Seq(Delivered), Doubled(s) \in Seq(Delivered)
  PROVE  Opened(Append(s, "'")) = Append(Append(Opened(s), "'"), "'")
<1>1. PICK d \in Seq(Delivered) : d = Doubled(s)
  OBVIOUS
<1>2. "'" \in Delivered /\ <<"'">> \in Seq(Delivered) /\ <<"'", "'">> \in Seq(Delivered)
  <2>1. "'" \in Delivered
    BY QuoteDelivered
  <2> QED BY <2>1
<1>3. PICK q \in Seq(Delivered) : q = <<"'">>
  BY <1>2
<1>4. PICK o \in Seq(Delivered) : o = q \o d
  BY ConcatProperties
<1>5. PICK oq \in Seq(Delivered) : oq = Append(o, "'")
  BY <1>2, AppendProperties
<1>6. oq = o \o q /\ oq \o q = Append(oq, "'")
  BY <1>2, <1>3, <1>5, AppendIsConcat
<1>7. q \o (d \o (q \o q)) = oq \o q
  BY <1>4, <1>6, Regrouped
<1>8. <<"'", "'">> = q \o q
  <2>1. PICK y \in Seq(Delivered) : y = <<"'", "'">>
    BY <1>2
  <2>2. y = Append(q, "'")
    BY <1>3, <2>1
  <2>3. Append(q, "'") = q \o <<"'">>
    BY <1>2, AppendIsConcat
  <2> QED BY <1>3, <2>1, <2>2, <2>3
<1>9. Doubled(Append(s, "'")) = d \o (q \o q)
  BY <1>1, <1>2, <1>8, DoubledGrows
<1> QED BY <1>1, <1>3, <1>4, <1>5, <1>6, <1>7, <1>9 DEF Opened

LEMMA QuotedIsOpened ==
  ASSUME NEW s, Doubled(s) \in Seq(Delivered)
  PROVE  Quoted(s) = Append(Opened(s), "'")
<1>1. PICK d \in Seq(Delivered) : d = Doubled(s)
  OBVIOUS
<1>2. <<"'">> \in Seq(Delivered) /\ "'" \in Delivered
  BY QuoteDelivered
<1>3. PICK q \in Seq(Delivered) : q = <<"'">>
  BY <1>2
<1>4. PICK o \in Seq(Delivered) : o = q \o d
  BY ConcatProperties
<1>5. Quoted(s) = o \o q
  <2>1. Quoted(s) = q \o d \o q
    BY <1>1, <1>3 DEF Quoted, Doubled, Doubling
  <2> QED BY <1>4, <2>1
<1>6. o \o q = Append(o, "'")
  BY <1>2, <1>3, AppendIsConcat
<1> QED BY <1>1, <1>3, <1>4, <1>5, <1>6 DEF Opened

----------------------------------------------------------------------------
(* The inductive invariant.                                                *)

TokenChars == Specials \ (Blanks \cup {"_", "'"})
First(s, c) == IF s = <<>> THEN c ELSE s[1]

(* What the code knows of the piece s it has read, and of the character c  *)
(* that it looks at, where it is.                                          *)
Shape(state, s, v, c) ==
  /\ state = "identifier" => AllIn(s, InName) /\ First(s, c) \in InName \ DOMAIN Digits
  /\ state = "token" => s = <<>> /\ c \in TokenChars
  /\ state = "token_end" => Len(s) = 1 /\ s[1] \in TokenChars
  /\ state \in {"zeros", "digits"} => AllIn(s, DOMAIN Digits) /\ First(s, c) \in DOMAIN Digits
  /\ state = "fraction" => s # <<>> /\ s[1] \in DOMAIN Digits /\ Has(s, {"."})
  /\ state \in {"sign", "exponent"} => s # <<>> /\ s[1] \in DOMAIN Digits /\ Has(s, {"e", "E"})
  /\ state = "quote" => s = <<>> /\ c = "'"
  /\ state \in {"inside", "closing"} => v \in Seq(Delivered) /\ Doubled(v) \in Seq(Delivered)
  /\ state = "inside" => s = Opened(v)
  /\ state = "closing" => s = Append(Opened(v), "'")
  /\ state = "eos" => s = <<>> /\ c = Eos

(* ch is the last of the text, unless nothing has been read.               *)
CurrentCh ==
  /\ text = <<>> => ch = Eos
  /\ text # <<>> => text[Len(text)] = ch
  /\ ch # Eos => PlaceIs(text, Len(text), line, col)

(* The piece is the text between the start of the lexeme and ch.           *)
PieceStands ==
  /\ WrittenAt(text, piece, at.first)
  /\ Len(text) = at.first + Len(piece)
  /\ Shape(pc, piece, value, ch)
  /\ pc # "eos" => at.first >= 1 /\ IsPlace(text, at)

LexTypes == text \in Seq(Delivered) /\ piece \in Seq(Delivered) /\ AnySeq(lexems)

NothingYet ==
  /\ pc \in {"reset", "first"} => text = <<>> /\ lexems = <<>> /\ piece = <<>>
  /\ pc = "first" => line = 1 /\ col = 0

BetweenLexemes ==
  /\ pc = "start" => piece = <<>> /\ EndsBefore(lexems, Len(text))
  /\ pc \in {"start", "done"} => Lexed(text, lexems, Len(text))

WithinLexeme ==
  pc \in InLexeme =>
    PieceStands /\ Lexed(text, lexems, at.first) /\ EndsBefore(lexems, at.first)

LexInv ==
  /\ LexTypes /\ NothingYet /\ BetweenLexemes /\ WithinLexeme
  /\ pc \in Going => CurrentCh

LEMMA InitLex == LexInit => LexInv
<1> SUFFICES ASSUME LexInit PROVE LexInv
  OBVIOUS
<1>1. <<>> \in Seq(Delivered) /\ <<>> \in Seq({})
  OBVIOUS
<1>2. LexTypes
  BY <1>1 DEF LexInit, LexTypes, AnySeq
<1>3. pc = "reset"
  BY DEF LexInit
<1>4. NothingYet
  BY DEF LexInit, NothingYet
<1> QED BY <1>2, <1>3, <1>4 DEF LexInv, BetweenLexemes, WithinLexeme, InLexeme, Going

(* An error ends the statement, and what was read does not matter.         *)
LEMMA EndKeepsLex ==
  ASSUME LexInv, pc' \in {"failed", "error"}, text' = text, lexems' = lexems, piece' \in Seq(Delivered)
  PROVE  LexInv'
<1>1. LexTypes'
  BY DEF LexInv, LexTypes
<1> QED BY <1>1 DEF LexInv, NothingYet, BetweenLexemes, WithinLexeme, InLexeme, Going

LEMMA ErrorKeepsLex ==
  ASSUME LexInv, NEW reason, lexer_report_error(reason)
  PROVE  LexInv'
<1>1. pc' = "error" /\ text' = text /\ lexems' = lexems /\ piece' = piece
  BY DEF lexer_report_error
<1>2. piece \in Seq(Delivered)
  BY DEF LexInv, LexTypes
<1> QED BY <1>1, <1>2, EndKeepsLex

(* Reading a character.                                                    *)
LEMMA CharRead ==
  ASSUME NEW to, text \in Seq(Delivered), PlaceIs(text, Len(text), line, col), lexer_next_ch(to)
  PROVE  \/ pc' = "failed" /\ text' = text
         \/ pc' = to /\ \E x \in Delivered : Longer(text, text', x) /\ ch' = x /\ CurrentCh'
<1>1. CASE BadCh
  BY <1>1 DEF BadCh
<1>2. CASE LastCh(to)
  <2>1. text' = Append(text, Eos) /\ ch' = Eos /\ pc' = to /\ Eos \in Delivered
    BY <1>2 DEF LastCh, Delivered
  <2>2. Longer(text, text', Eos)
    BY <2>1, AppendIsLonger
  <2>3. text' # <<>> /\ text'[Len(text')] = Eos
    BY <2>1, AppendProperties
  <2>4. CurrentCh'
    BY <2>1, <2>3 DEF CurrentCh
  <2> QED BY <2>1, <2>2, <2>4
<1>3. CASE \E c \in Chars : OneCh(c, to)
  <2>1. PICK c \in Chars : OneCh(c, to)
    BY <1>3
  <2>2. /\ text' = Append(text, c) /\ ch' = c /\ pc' = to /\ c \in Delivered
        /\ line' = (IF c = "\n" THEN line + 1 ELSE line)
        /\ col' = (IF c = "\n" THEN 0 ELSE col + 1)
    BY <2>1 DEF OneCh, Delivered
  <2>3. Longer(text, text', c)
    BY <2>2, AppendIsLonger
  <2>4. text' # <<>> /\ text'[Len(text')] = c
    BY <2>2, AppendProperties
  <2>5. PlaceIs(text', Len(text'), IF c = "\n" THEN line + 1 ELSE line, IF c = "\n" THEN 0 ELSE col + 1)
    BY <2>3, PlaceOfNext
  <2>6. PlaceIs(text', Len(text'), line', col')
    BY <2>2, <2>5
  <2>7. CurrentCh'
    BY <2>2, <2>4, <2>6 DEF CurrentCh
  <2> QED BY <2>2, <2>3, <2>7
<1> QED BY <1>1, <1>2, <1>3 DEF lexer_next_ch

(* There is a text as long as ch is not its end.                           *)
LEMMA ThereIsText ==
  ASSUME LexInv, pc \in Going, ch # Eos
  PROVE  /\ text \in Seq(Delivered) /\ Len(text) \in Nat /\ Len(text) >= 1
         /\ text[Len(text)] = ch /\ ch \in Delivered /\ PlaceIs(text, Len(text), line, col)
<1>1. CurrentCh /\ text \in Seq(Delivered)
  BY DEF LexInv, LexTypes
<1>2. text # <<>> /\ text[Len(text)] = ch /\ PlaceIs(text, Len(text), line, col)
  BY <1>1 DEF CurrentCh
<1>3. Len(text) \in Nat /\ Len(text) >= 1
  BY <1>1, <1>2, EmptySeq
<1>4. Len(text) \in 1 .. Len(text)
  BY <1>3
<1> QED BY <1>1, <1>2, <1>3, <1>4, ElementOfSeq

(* A lexeme goes on: its piece grows by ch, whatever is read next.         *)
LEMMA TakeKeepsLex ==
  ASSUME LexInv, pc \in InLexeme, pc # "eos", ch # Eos, NEW v, NEW to \in InLexeme \ {"eos"}, Take(v, to),
         \A c \in Delivered : Shape(to, Append(piece, ch), v, c)
  PROVE  LexInv'
<1>1. /\ piece' = Append(piece, ch) /\ value' = v /\ lexer_next_ch(to)
      /\ at' = at /\ lexems' = lexems
  BY DEF Take
<1>2. pc \in Going
  BY DEF Going
<1>3. /\ text \in Seq(Delivered) /\ Len(text) \in Nat /\ Len(text) >= 1
      /\ text[Len(text)] = ch /\ ch \in Delivered /\ PlaceIs(text, Len(text), line, col)
  BY <1>2, ThereIsText
<1>4. piece \in Seq(Delivered) /\ AnySeq(lexems) /\ PieceStands
      /\ Lexed(text, lexems, at.first) /\ EndsBefore(lexems, at.first)
  BY DEF LexInv, LexTypes, WithinLexeme
<1>5. PICK k \in Nat : k = Len(piece)
  BY <1>4, LenProperties
<1>6. /\ piece' \in Seq(Delivered) /\ Len(piece') = k + 1 /\ piece'[k + 1] = ch
      /\ \A i \in 1 .. k : piece'[i] = piece[i]
  BY <1>1, <1>3, <1>4, <1>5, AppendProperties
<1>7. CASE pc' = "failed" /\ text' = text
  <2>1. piece' \in Seq(Delivered) /\ lexems' = lexems /\ text' = text /\ pc' \in {"failed", "error"}
    BY <1>1, <1>6, <1>7
  <2> QED BY <2>1, EndKeepsLex
<1>8. CASE pc' = to /\ \E x \in Delivered : Longer(text, text', x) /\ ch' = x /\ CurrentCh'
  <2>1. PICK x \in Delivered : Longer(text, text', x) /\ ch' = x /\ CurrentCh'
    BY <1>8
  <2>2. PICK first \in Nat : first = at.first
    BY <1>4 DEF PieceStands, WrittenAt
  <2>3. first >= 1 /\ IsPlace(text, at) /\ Len(text) = first + k
    BY <1>4, <1>5, <2>2 DEF PieceStands
  <2>4. /\ text' \in Seq(Delivered) /\ Len(text') = first + k + 1
        /\ \A i \in 1 .. first + k : text'[i] = text[i]
    BY <2>1, <2>3 DEF Longer
  <2>5. \A i \in 1 .. k + 1 : piece'[i] = text'[first + i - 1]
    <3> TAKE i \in 1 .. k + 1
    <3>1. first + i - 1 \in 1 .. first + k
      BY <2>3
    <3>2. text'[first + i - 1] = text[first + i - 1]
      BY <2>4, <3>1
    <3>3. CASE i = k + 1
      <4>1. first + i - 1 = Len(text)
        BY <2>3, <3>3
      <4> QED BY <1>3, <1>6, <3>2, <3>3, <4>1
    <3>4. CASE i # k + 1
      <4>1. i \in 1 .. k
        BY <3>4
      <4>2. piece[i] = text[first + i - 1]
        BY <1>4, <1>5, <2>2, <4>1 DEF PieceStands, WrittenAt
      <4> QED BY <1>6, <3>2, <4>1, <4>2
    <3> QED BY <3>3, <3>4
  <2>6. WrittenAt(text', piece', first)
    <3>1. first + (k + 1) <= first + k + 1
      OBVIOUS
    <3> QED BY <1>6, <2>4, <2>5, <3>1 DEF WrittenAt
  <2>7. IsPlace(text', at)
    <3>1. first - 1 \in Int /\ first - 1 <= Len(text)
      BY <2>3
    <3>2. Breaks(text', first - 1) = Breaks(text, first - 1)
      BY <2>1, <3>1, BreaksKept
    <3> QED BY <2>2, <2>3, <3>2 DEF IsPlace
  <2>8. Shape(to, piece', v, x)
    BY <1>1
  <2>9. Len(text') = first + Len(piece')
    BY <1>6, <2>4
  <2>10. PieceStands'
    BY <1>1, <1>8, <2>1, <2>2, <2>3, <2>6, <2>7, <2>8, <2>9 DEF PieceStands
  <2>11. Lexed(text', lexems, first)
    <3>1. first \in Int /\ first <= Len(text) + 1 /\ Lexed(text, lexems, first)
      BY <1>4, <2>2, <2>3
    <3> QED BY <2>1, <3>1, LexedInLonger
  <2>12. WithinLexeme'
    BY <1>1, <1>4, <2>2, <2>10, <2>11 DEF WithinLexeme
  <2>13. LexTypes'
    BY <1>1, <1>4, <1>6, <2>4 DEF LexTypes
  <2>14. pc' \in InLexeme
    BY <1>8
  <2>15. BetweenLexemes' /\ NothingYet'
    BY <2>14 DEF InLexeme, BetweenLexemes, NothingYet
  <2> QED BY <2>1, <2>12, <2>13, <2>15 DEF LexInv
<1> QED BY <1>1, <1>3, <1>7, <1>8, CharRead

(* A lexeme ends at ch.                                                    *)
LEMMA ReturnKeepsLex ==
  ASSUME LexInv, pc \in InLexeme, NEW type, type = "eos" <=> pc = "eos",
         IsLexeme(type, piece, value, ch), Return(type)
  PROVE  LexInv'
<1>1. PICK l : l = Lexem(type)
  OBVIOUS
<1>2. l.type = type /\ l.piece = piece /\ l.value = value /\ l.at = at
  BY <1>1 DEF Lexem
<1>3. /\ lexems' = Append(lexems, l) /\ piece' = <<>> /\ text' = text /\ ch' = ch
      /\ line' = line /\ col' = col /\ pc' = IF type = "eos" THEN "done" ELSE "start"
  BY <1>1 DEF Return
<1>4. piece \in Seq(Delivered) /\ text \in Seq(Delivered) /\ AnySeq(lexems) /\ PieceStands
      /\ Lexed(text, lexems, at.first) /\ EndsBefore(lexems, at.first) /\ CurrentCh
  BY DEF LexInv, LexTypes, WithinLexeme, Going
<1>5. Len(text) \in Nat
  BY <1>4, LenProperties
<1>6. Stands(text, l)
  <2>1. WrittenAt(text, piece, at.first) /\ Len(text) = at.first + Len(piece)
    BY <1>4 DEF PieceStands
  <2>2. CASE type = "eos"
    <3>1. IsLexeme(type, piece, value, text[at.first + Len(piece)])
      BY <2>2 DEF IsLexeme
    <3> QED BY <1>2, <1>4, <2>1, <2>2, <3>1 DEF Stands
  <2>3. CASE type # "eos"
    <3>1. at.first >= 1 /\ IsPlace(text, at) /\ at.first \in Nat /\ Len(piece) \in Nat
      BY <1>4, <2>3, LenProperties DEF PieceStands, WrittenAt
    <3>2. Len(text) \in 1 .. Len(text)
      BY <1>5, <2>1, <3>1
    <3>3. text # <<>>
      BY <3>2
    <3>4. text[at.first + Len(piece)] = ch
      BY <1>4, <2>1, <3>3 DEF CurrentCh
    <3> QED BY <1>2, <1>4, <2>1, <3>1, <3>2, <3>4 DEF Stands
  <2> QED BY <2>2, <2>3
<1>7. /\ Lexed(text, Append(lexems, l), Len(text)) /\ EndsBefore(Append(lexems, l), Len(text))
      /\ AnySeq(Append(lexems, l))
  <2>1. Lexed(text, lexems, l.at.first) /\ EndsBefore(lexems, l.at.first)
    BY <1>2, <1>4
  <2>2. l.at.first + Len(l.piece) = Len(text)
    BY <1>2, <1>4 DEF PieceStands
  <2> QED BY <1>4, <1>6, <2>1, <2>2, LexedAppended
<1>8. <<>> \in Seq(Delivered)
  OBVIOUS
<1>9. LexTypes'
  BY <1>3, <1>4, <1>7, <1>8 DEF LexTypes
<1>10. BetweenLexemes'
  BY <1>3, <1>7 DEF BetweenLexemes
<1>11. CurrentCh'
  BY <1>3, <1>4 DEF CurrentCh
<1>12. pc' \in {"start", "done"}
  BY <1>3
<1> QED BY <1>9, <1>10, <1>11, <1>12 DEF LexInv, NothingYet, WithinLexeme, InLexeme

(* A lexeme begins at ch.                                                  *)
LEMMA BeginKeepsLex ==
  ASSUME LexInv, NEW state \in InLexeme, NEW v, Begin(state, v), Shape(state, <<>>, v, ch),
         state = "eos" \/ (ch # Eos /\ ch # "\n")
  PROVE  LexInv'
<1>1. /\ pc = "start" /\ at' = [line |-> line, col |-> col, first |-> Len(text)] /\ pc' = state
      /\ value' = v /\ text' = text /\ ch' = ch /\ line' = line /\ col' = col
      /\ piece' = piece /\ lexems' = lexems
  BY DEF Begin
<1>2. /\ text \in Seq(Delivered) /\ piece = <<>> /\ AnySeq(lexems) /\ CurrentCh
      /\ Lexed(text, lexems, Len(text)) /\ EndsBefore(lexems, Len(text))
  BY <1>1 DEF LexInv, LexTypes, BetweenLexemes, Going
<1>3. PICK n \in Nat : n = Len(text)
  BY <1>2, LenProperties
<1>4. PICK place : place = at'
  OBVIOUS
<1>5. place.line = line /\ place.col = col /\ place.first = n
  BY <1>1, <1>3, <1>4
<1>6. WrittenAt(text, <<>>, n) /\ n = n + Len(<<>>)
  BY <1>3 DEF WrittenAt
<1>7. state # "eos" => n >= 1 /\ IsPlace(text, place)
  <2> HAVE state # "eos"
  <2>1. pc \in Going
    BY <1>1 DEF Going
  <2>2. n >= 1 /\ text[n] = ch /\ PlaceIs(text, n, line, col)
    BY <1>3, <2>1, ThereIsText
  <2>3. text[n] # "\n"
    BY <2>2
  <2>4. IsPlace(text, place)
    BY <1>5, <2>2, <2>3, PlaceOfThis
  <2> QED BY <2>2, <2>4
<1>8. PieceStands'
  BY <1>1, <1>2, <1>3, <1>4, <1>5, <1>6, <1>7 DEF PieceStands
<1>9. WithinLexeme'
  BY <1>1, <1>2, <1>3, <1>4, <1>5, <1>8 DEF WithinLexeme
<1>10. LexTypes' /\ CurrentCh'
  BY <1>1, <1>2 DEF LexInv, LexTypes, CurrentCh
<1> QED BY <1>1, <1>9, <1>10 DEF LexInv, NothingYet, BetweenLexemes, InLexeme

----------------------------------------------------------------------------
(* The steps.                                                              *)

LEMMA CharTypes ==
  /\ Eos \notin Chars /\ "'" \in Specials /\ "." \in Specials /\ "+" \in Specials
  /\ "-" \in Specials /\ "0" \in DOMAIN Digits /\ {"e", "E"} \subseteq Letters
  /\ \A c \in Specials : c \notin Letters \cup DOMAIN Digits \cup Others
  /\ {" ", "\n"} \subseteq Specials
  /\ Eos \notin InName /\ Eos \notin Blanks /\ Eos \notin DOMAIN Digits /\ Eos \notin TokenChars
BY LexerAssumption, CharTypesAssumption
   DEF LexerAssumption, CharTypesAssumption, Chars, InName, Blanks, TokenChars, Letters

(* A character more of a piece that is made of some kinds of characters.   *)
LEMMA PieceGrows ==
  ASSUME NEW s \in Seq(Delivered), NEW c \in Delivered
  PROVE  /\ Append(s, c) # <<>> /\ Append(s, c)[1] = First(s, c)
         /\ \A cs : AllIn(s, cs) /\ c \in cs => AllIn(Append(s, c), cs)
         /\ \A cs : Has(s, cs) \/ c \in cs => Has(Append(s, c), cs)
         /\ Len(Append(s, c)) = Len(s) + 1
<1>1. PICK k \in Nat : k = Len(s)
  BY LenProperties
<1>2. PICK r \in Seq(Delivered) : r = Append(s, c)
  BY AppendProperties
<1>3. r # <<>> /\ Len(r) = k + 1 /\ r[k + 1] = c /\ \A i \in 1 .. k : r[i] = s[i]
  BY <1>1, <1>2, AppendProperties
<1>4. DOMAIN s = 1 .. k /\ DOMAIN r = 1 .. k + 1
  BY <1>1, <1>3, LenProperties
<1>5. r[1] = First(s, c)
  <2>1. CASE s = <<>>
    <3>1. k = 0
      BY <1>1, <2>1
    <3> QED BY <1>3, <2>1, <3>1 DEF First
  <2>2. CASE s # <<>>
    <3>1. 1 \in 1 .. k
      BY <1>1, <2>2, EmptySeq
    <3> QED BY <1>3, <2>2, <3>1 DEF First
  <2> QED BY <2>1, <2>2
<1>6. \A cs : AllIn(s, cs) /\ c \in cs => AllIn(r, cs)
  <2> SUFFICES ASSUME NEW cs, AllIn(s, cs), c \in cs, NEW i \in 1 .. k + 1 PROVE r[i] \in cs
    BY <1>4 DEF AllIn
  <2>1. CASE i = k + 1
    BY <1>3, <2>1
  <2>2. CASE i # k + 1
    BY <1>3, <1>4, <2>2 DEF AllIn
  <2> QED BY <2>1, <2>2
<1>7. \A cs : Has(s, cs) \/ c \in cs => Has(r, cs)
  <2> SUFFICES ASSUME NEW cs, Has(s, cs) \/ c \in cs PROVE \E i \in 1 .. k + 1 : r[i] \in cs
    BY <1>4 DEF Has
  <2>1. CASE c \in cs
    BY <1>3, <2>1
  <2>2. CASE Has(s, cs)
    <3>1. PICK i \in 1 .. k : s[i] \in cs
      BY <1>4, <2>2 DEF Has
    <3>2. i \in 1 .. k + 1 /\ r[i] = s[i]
      BY <1>3
    <3> QED BY <3>1, <3>2
  <2> QED BY <2>1, <2>2
<1> QED BY <1>1, <1>2, <1>3, <1>5, <1>6, <1>7

(* What holds within a lexeme that ch goes on.                             *)
LEMMA WithinKnows ==
  ASSUME LexInv, pc \in InLexeme
  PROVE  /\ Shape(pc, piece, value, ch) /\ piece \in Seq(Delivered)
         /\ ch # Eos => ch \in Delivered
<1>1. Shape(pc, piece, value, ch) /\ piece \in Seq(Delivered)
  BY DEF LexInv, LexTypes, WithinLexeme, PieceStands
<1>2. pc \in Going
  BY DEF Going
<1> QED BY <1>1, <1>2, ThereIsText

LEMMA TokenKeepsLex == LexInv /\ Token => LexInv'
<1> SUFFICES ASSUME LexInv, Token PROVE LexInv'
  OBVIOUS
<1>1. pc = "token" /\ Take(<<>>, "token_end")
  BY DEF Token
<1>2. pc \in InLexeme /\ "token_end" \in InLexeme \ {"eos"} /\ pc # "eos"
  BY <1>1 DEF InLexeme
<1>3. Shape(pc, piece, value, ch) /\ piece \in Seq(Delivered) /\ (ch # Eos => ch \in Delivered)
  BY <1>2, WithinKnows
<1>4. piece = <<>> /\ ch \in TokenChars /\ ch # Eos
  BY <1>1, <1>3, CharTypes DEF Shape
<1>5. Append(piece, ch) # <<>> /\ Append(piece, ch)[1] = First(piece, ch) /\ Len(Append(piece, ch)) = Len(piece) + 1
  BY <1>3, <1>4, PieceGrows
<1>6. Len(Append(piece, ch)) = 1 /\ Append(piece, ch)[1] = ch
  BY <1>4, <1>5 DEF First
<1>7. \A c \in Delivered : Shape("token_end", Append(piece, ch), <<>>, c)
  BY <1>4, <1>6 DEF Shape
<1> QED BY <1>1, <1>2, <1>4, <1>7, TakeKeepsLex

LEMMA IdentifierKeepsLex == LexInv /\ Identifier => LexInv'
<1> SUFFICES ASSUME LexInv, Identifier PROVE LexInv'
  OBVIOUS
<1>1. pc = "identifier" /\ ch \in InName /\ Take(<<>>, "identifier")
  BY DEF Identifier
<1>2. pc \in InLexeme /\ pc \in InLexeme \ {"eos"} /\ pc # "eos"
  BY <1>1 DEF InLexeme
<1>3. Shape(pc, piece, value, ch) /\ piece \in Seq(Delivered) /\ (ch # Eos => ch \in Delivered)
  BY <1>2, WithinKnows
<1>4. ch # Eos /\ AllIn(piece, InName) /\ First(piece, ch) \in InName \ DOMAIN Digits
  BY <1>1, <1>3, CharTypes DEF Shape
<1>5. /\ Append(piece, ch) # <<>> /\ Append(piece, ch)[1] = First(piece, ch)
      /\ AllIn(Append(piece, ch), InName)
  BY <1>1, <1>3, <1>4, PieceGrows
<1>6. \A c \in Delivered : Shape("identifier", Append(piece, ch), <<>>, c)
  BY <1>4, <1>5 DEF Shape, First
<1> QED BY <1>1, <1>2, <1>4, <1>6, TakeKeepsLex

(* A digit, a point, an e or a sign of a number.                           *)
LEMMA NumberKeepsLex ==
  ASSUME LexInv, pc \in {"zeros", "digits", "fraction", "sign", "exponent"},
         NEW to \in {"zeros", "digits", "fraction", "sign", "exponent"}, NEW v, Take(v, to),
         \/ to \in {"zeros", "digits"} /\ pc = to /\ ch \in DOMAIN Digits
         \/ to = "fraction" /\ pc = "digits" /\ ch = "."
         \/ to = "fraction" /\ pc = "fraction" /\ ch \in DOMAIN Digits
         \/ to = "sign" /\ pc \in {"digits", "fraction"} /\ ch \in {"e", "E"}
         \/ to = "exponent" /\ pc = "sign" /\ ch \in {"+", "-"}
         \/ to = "exponent" /\ pc = "exponent" /\ ch \in DOMAIN Digits
  PROVE  LexInv'
<1>1. pc \in InLexeme /\ to \in InLexeme \ {"eos"} /\ pc # "eos"
  BY DEF InLexeme
<1>2. Shape(pc, piece, value, ch) /\ piece \in Seq(Delivered) /\ (ch # Eos => ch \in Delivered)
  BY <1>1, WithinKnows
<1>3. ch # Eos
  BY CharTypes DEF Chars
<1>4. PICK s : s = Append(piece, ch)
  OBVIOUS
<1>5. /\ s # <<>> /\ s[1] = First(piece, ch)
      /\ \A cs : AllIn(piece, cs) /\ ch \in cs => AllIn(s, cs)
      /\ \A cs : Has(piece, cs) \/ ch \in cs => Has(s, cs)
  BY <1>2, <1>3, <1>4, PieceGrows
<1>6. First(piece, ch) \in DOMAIN Digits
  BY <1>2 DEF Shape, First
<1>7. to \in {"zeros", "digits"} => AllIn(s, DOMAIN Digits)
  BY <1>2, <1>5 DEF Shape
<1>8. to = "fraction" => Has(s, {"."})
  BY <1>2, <1>5 DEF Shape
<1>9. to \in {"sign", "exponent"} => Has(s, {"e", "E"})
  BY <1>2, <1>5 DEF Shape
<1>10. \A c \in Delivered : Shape(to, s, v, c)
  BY <1>5, <1>6, <1>7, <1>8, <1>9 DEF Shape, First
<1> QED BY <1>1, <1>3, <1>4, <1>10, TakeKeepsLex

LEMMA ZeroKeepsLex == LexInv /\ LeadingZero => LexInv'
<1> SUFFICES ASSUME LexInv, LeadingZero PROVE LexInv'
  OBVIOUS
<1>1. pc = "zeros"
  BY DEF LeadingZero
<1>2. CASE ch = "0" /\ Take(value, "zeros")
  <2>1. ch \in DOMAIN Digits
    BY <1>2, CharTypes
  <2> QED BY <1>1, <1>2, <2>1, NumberKeepsLex
<1>3. CASE pc' = "digits" /\ UNCHANGED <<text, ch, line, col, num_mode, piece, value, at, lexems, why>>
  <2>1. pc \in InLexeme /\ pc' \in InLexeme /\ pc \in Going
    BY <1>1, <1>3 DEF InLexeme, Going
  <2>2. PieceStands /\ Lexed(text, lexems, at.first) /\ EndsBefore(lexems, at.first)
        /\ CurrentCh /\ LexTypes
    BY <2>1 DEF LexInv, WithinLexeme
  <2>3. Shape("digits", piece, value, ch)
    BY <1>1, <2>2 DEF PieceStands, Shape
  <2>4. PieceStands'
    BY <1>1, <1>3, <2>2, <2>3 DEF PieceStands
  <2>5. WithinLexeme'
    BY <1>3, <2>2, <2>4 DEF WithinLexeme
  <2>6. CurrentCh' /\ LexTypes'
    BY <1>3, <2>2 DEF CurrentCh, LexTypes
  <2> QED BY <1>3, <2>5, <2>6 DEF LexInv, NothingYet, BetweenLexemes
<1> QED BY <1>2, <1>3 DEF LeadingZero

LEMMA WholeDigitKeepsLex == LexInv /\ WholeDigit => LexInv'
<1> SUFFICES ASSUME LexInv, WholeDigit PROVE LexInv'
  OBVIOUS
<1>1. CASE Take(WithDigit(0), "digits")
  BY <1>1, NumberKeepsLex DEF WholeDigit, AtDigit
<1>2. CASE lexer_report_error(IF num_mode = 1 THEN "integer" ELSE "mantissa")
  BY <1>2, ErrorKeepsLex
<1> QED BY <1>1, <1>2 DEF WholeDigit

LEMMA FractionDigitKeepsLex == LexInv /\ FractionDigit => LexInv'
<1> SUFFICES ASSUME LexInv, FractionDigit PROVE LexInv'
  OBVIOUS
<1>1. CASE Take(WithDigit(1), "fraction")
  BY <1>1, NumberKeepsLex DEF FractionDigit, AtDigit
<1>2. CASE lexer_report_error("mantissa")
  BY <1>2, ErrorKeepsLex
<1> QED BY <1>1, <1>2 DEF FractionDigit

LEMMA PointKeepsLex == LexInv /\ (Point \/ Exponent) => LexInv'
<1>1. ASSUME LexInv, Point PROVE LexInv'
  BY <1>1, NumberKeepsLex DEF Point
<1>2. ASSUME LexInv, Exponent PROVE LexInv'
  BY <1>2, NumberKeepsLex DEF Exponent
<1> QED BY <1>1, <1>2

LEMMA SignKeepsLex == LexInv /\ Sign => LexInv'
<1> SUFFICES ASSUME LexInv, Sign PROVE LexInv'
  OBVIOUS
<1>1. CASE ch = "+" /\ Take([value EXCEPT !.sign = 1], "exponent")
  BY <1>1, NumberKeepsLex DEF Sign
<1>2. CASE ch = "-" /\ Take([value EXCEPT !.sign = -1], "exponent")
  BY <1>2, NumberKeepsLex DEF Sign
<1>3. CASE lexer_report_error("sign")
  BY <1>3, ErrorKeepsLex
<1> QED BY <1>1, <1>2, <1>3 DEF Sign

LEMMA ExponentDigitKeepsLex == LexInv /\ ExponentDigit => LexInv'
<1> SUFFICES ASSUME LexInv, ExponentDigit PROVE LexInv'
  OBVIOUS
<1>1. CASE lexer_report_error("exponent")
  BY <1>1, ErrorKeepsLex
<1>2. CASE Take([value EXCEPT !.d = 10 * value.d + Digits[ch]], "exponent")
  BY <1>2, NumberKeepsLex DEF ExponentDigit, AtDigit
<1> QED BY <1>1, <1>2 DEF ExponentDigit

(* The quote that opens a literal.                                         *)
LEMMA QuoteKeepsLex == LexInv /\ Quote => LexInv'
<1> SUFFICES ASSUME LexInv, Quote PROVE LexInv'
  OBVIOUS
<1>1. pc = "quote" /\ Take(<<>>, "inside")
  BY DEF Quote
<1>2. pc \in InLexeme /\ "inside" \in InLexeme \ {"eos"} /\ pc # "eos"
  BY <1>1 DEF InLexeme
<1>3. piece = <<>> /\ ch = "'"
  BY <1>1, <1>2, WithinKnows DEF Shape
<1>4. ch # Eos
  BY <1>3, QuoteDelivered
<1>5. <<>> \in Seq(Delivered) /\ Doubled(<<>>) = <<>> /\ <<"'">> \in Seq(Delivered)
  BY NothingDoubled, QuoteDelivered
<1>6. Append(piece, ch) = Opened(<<>>)
  <2>1. Append(piece, ch) = <<"'">>
    BY <1>3
  <2>2. <<"'">> \o <<>> = <<"'">>
    BY <1>5, ConcatEmptySeq
  <2> QED BY <1>5, <2>1, <2>2 DEF Opened
<1>7. \A c \in Delivered : Shape("inside", Append(piece, ch), <<>>, c)
  BY <1>5, <1>6 DEF Shape
<1> QED BY <1>1, <1>2, <1>4, <1>7, TakeKeepsLex

(* A quote inside a literal ends it, or is the first of two.               *)
LEMMA InsideQuoteKeepsLex == LexInv /\ InsideQuote => LexInv'
<1> SUFFICES ASSUME LexInv, InsideQuote PROVE LexInv'
  OBVIOUS
<1>1. pc = "inside" /\ ch = "'" /\ Take(value, "closing")
  BY DEF InsideQuote
<1>2. pc \in InLexeme /\ "closing" \in InLexeme \ {"eos"} /\ pc # "eos"
  BY <1>1 DEF InLexeme
<1>3. piece = Opened(value) /\ value \in Seq(Delivered) /\ Doubled(value) \in Seq(Delivered)
  BY <1>1, <1>2, WithinKnows DEF Shape
<1>4. ch # Eos
  BY <1>1, QuoteDelivered
<1>5. \A c \in Delivered : Shape("closing", Append(piece, ch), value, c)
  BY <1>1, <1>3 DEF Shape
<1> QED BY <1>1, <1>2, <1>4, <1>5, TakeKeepsLex

LEMMA ContentKeepsLex == LexInv /\ Content => LexInv'
<1> SUFFICES ASSUME LexInv, Content PROVE LexInv'
  OBVIOUS
<1>1. CASE lexer_report_error("literal")
  BY <1>1, ErrorKeepsLex
<1>2. CASE Take(Append(value, ch), "inside")
  <2>1. /\ pc \in {"inside", "closing"} /\ ch # Eos
        /\ pc = "inside" => ch # "'"
        /\ pc = "closing" => ch = "'"
    BY QuoteDelivered DEF Content
  <2>2. pc \in InLexeme /\ "inside" \in InLexeme \ {"eos"} /\ pc # "eos"
    BY <2>1 DEF InLexeme
  <2>3. Shape(pc, piece, value, ch) /\ ch \in Delivered
    BY <2>1, <2>2, WithinKnows
  <2>4. value \in Seq(Delivered) /\ Doubled(value) \in Seq(Delivered)
    BY <2>1, <2>3 DEF Shape
  <2>5. PICK v : v = Append(value, ch)
    OBVIOUS
  <2>6. v \in Seq(Delivered) /\ Doubled(v) \in Seq(Delivered)
    BY <2>3, <2>4, <2>5, AppendProperties, DoubledIsText
  <2>7. Append(piece, ch) = Opened(v)
    <3>1. CASE pc = "inside"
      BY <2>1, <2>3, <2>4, <2>5, <3>1, OpenedGrows DEF Shape
    <3>2. CASE pc = "closing"
      BY <2>1, <2>3, <2>4, <2>5, <3>2, OpenedGrowsQuote DEF Shape
    <3> QED BY <2>1, <3>1, <3>2
  <2>8. \A c \in Delivered : Shape("inside", Append(piece, ch), v, c)
    BY <2>6, <2>7 DEF Shape
  <2> QED BY <1>2, <2>1, <2>2, <2>5, <2>8, TakeKeepsLex
<1> QED BY <1>1, <1>2 DEF Content

(* The ends of lexemes.                                                    *)
LEMMA EndsKeepLex == LexInv /\ (EndOfText \/ TokenEnd \/ IdentifierEnd \/ LiteralEnd) => LexInv'
<1>1. ASSUME LexInv, EndOfText PROVE LexInv'
  <2>1. pc = "eos" /\ Return("eos") /\ pc \in InLexeme
    BY <1>1 DEF EndOfText, InLexeme
  <2>2. piece = <<>>
    BY <1>1, <2>1, WithinKnows DEF Shape
  <2>3. IsLexeme("eos", piece, value, ch)
    BY <2>2 DEF IsLexeme
  <2> QED BY <1>1, <2>1, <2>3, ReturnKeepsLex
<1>2. ASSUME LexInv, TokenEnd PROVE LexInv'
  <2>1. pc = "token_end" /\ Return("token") /\ pc \in InLexeme
    BY <1>2 DEF TokenEnd, InLexeme
  <2>2. Len(piece) = 1 /\ piece[1] \in TokenChars
    BY <1>2, <2>1, WithinKnows DEF Shape
  <2>3. IsLexeme("token", piece, value, ch)
    BY <2>2 DEF IsLexeme, TokenChars
  <2> QED BY <1>2, <2>1, <2>3, ReturnKeepsLex
<1>3. ASSUME LexInv, IdentifierEnd PROVE LexInv'
  <2>1. pc = "identifier" /\ ch \notin InName /\ pc \in InLexeme
    BY <1>3 DEF IdentifierEnd, InLexeme
  <2>2. AllIn(piece, InName) /\ First(piece, ch) \in InName \ DOMAIN Digits
    BY <1>3, <2>1, WithinKnows DEF Shape
  <2>3. IsName(piece, ch)
    BY <2>1, <2>2 DEF IsName, First
  <2>4. CASE IsReserved(piece)
    <3>1. Return("reserved") /\ IsLexeme("reserved", piece, value, ch)
      BY <1>3, <2>3, <2>4 DEF IdentifierEnd, IsLexeme, IsReserved
    <3> QED BY <1>3, <2>1, <3>1, ReturnKeepsLex
  <2>5. CASE ~ IsReserved(piece)
    <3>1. Return("identifier") /\ IsLexeme("identifier", piece, value, ch)
      BY <1>3, <2>3, <2>5 DEF IdentifierEnd, IsLexeme, IsReserved
    <3> QED BY <1>3, <2>1, <3>1, ReturnKeepsLex
  <2> QED BY <2>4, <2>5
<1>4. ASSUME LexInv, LiteralEnd PROVE LexInv'
  <2>1. pc = "closing" /\ ch # "'" /\ Return("literal") /\ pc \in InLexeme
    BY <1>4 DEF LiteralEnd, InLexeme
  <2>2. piece = Append(Opened(value), "'") /\ Doubled(value) \in Seq(Delivered)
    BY <1>4, <2>1, WithinKnows DEF Shape
  <2>3. IsLexeme("literal", piece, value, ch)
    BY <2>1, <2>2, QuotedIsOpened DEF IsLexeme
  <2> QED BY <1>4, <2>1, <2>3, ReturnKeepsLex
<1> QED BY <1>1, <1>2, <1>3, <1>4

LEMMA NumberEndKeepsLex == LexInv /\ NumberEnd => LexInv'
<1> SUFFICES ASSUME LexInv, NumberEnd PROVE LexInv'
  OBVIOUS
<1>1. CASE lexer_report_error("exponent")
  BY <1>1, ErrorKeepsLex
<1>2. CASE Return("number")
  <2>1. pc \in {"digits", "fraction", "exponent"} /\ ch \notin DOMAIN Digits /\ pc \in InLexeme
        /\ (pc = "fraction" => ch \notin {"e", "E"}) /\ pc # "eos"
    BY DEF NumberEnd, AtDigit, InLexeme
  <2>2. Shape(pc, piece, value, ch) /\ piece \in Seq(Delivered)
    BY <2>1, WithinKnows
  <2>3. piece[1] \in DOMAIN Digits
    BY <2>1, <2>2 DEF Shape, First
  <2>4. ASSUME pc = "digits" PROVE IsNumber(piece, ch)
    BY <2>1, <2>2, <2>3, <2>4 DEF Shape, IsNumber
  <2>5. ASSUME pc = "fraction" PROVE IsNumber(piece, ch)
    <3>1. Has(piece, {"."})
      BY <2>2, <2>5 DEF Shape
    <3>2. Has(piece, {".", "e", "E"})
      BY <3>1 DEF Has
    <3> QED BY <2>1, <2>3, <2>5, <3>2 DEF IsNumber
  <2>6. ASSUME pc = "exponent" PROVE IsNumber(piece, ch)
    <3>1. Has(piece, {"e", "E"})
      BY <2>2, <2>6 DEF Shape
    <3>2. Has(piece, {".", "e", "E"})
      BY <3>1 DEF Has
    <3> QED BY <2>1, <2>3, <3>1, <3>2 DEF IsNumber
  <2>7. IsLexeme("number", piece, value, ch)
    BY <2>1, <2>4, <2>5, <2>6 DEF IsLexeme
  <2> QED BY <1>2, <2>1, <2>7, ReturnKeepsLex
<1> QED BY <1>1, <1>2 DEF NumberEnd

LEMMA NextKeepsPlaceOfLex == LexInv /\ lexer_next => LexInv'
<1> SUFFICES ASSUME LexInv, lexer_next PROVE LexInv'
  OBVIOUS
<1>1. CASE ch \in InName \ DOMAIN Digits /\ Begin("identifier", <<>>)
  <2>1. ch # Eos /\ ch # "\n"
    BY <1>1, CharTypes DEF InName
  <2>2. Shape("identifier", <<>>, <<>>, ch)
    BY <1>1 DEF Shape, AllIn, First
  <2> QED BY <1>1, <2>1, <2>2, BeginKeepsLex DEF InLexeme
<1>2. CASE ch = "'" /\ Begin("quote", <<>>)
  <2>1. ch # Eos /\ ch # "\n"
    BY <1>2, QuoteDelivered
  <2>2. Shape("quote", <<>>, <<>>, ch)
    BY <1>2 DEF Shape
  <2> QED BY <1>2, <2>1, <2>2, BeginKeepsLex DEF InLexeme
<1>3. CASE ch \in DOMAIN Digits /\ Begin("zeros", NoNumber)
  <2>1. ch # Eos /\ ch # "\n"
    BY <1>3, CharTypes
  <2>2. Shape("zeros", <<>>, NoNumber, ch)
    BY <1>3 DEF Shape, AllIn, First
  <2> QED BY <1>3, <2>1, <2>2, BeginKeepsLex DEF InLexeme
<1>4. CASE ch \in Specials \ (Blanks \cup {"_", "'"}) /\ Begin("token", <<>>)
  <2>1. ch \in TokenChars
    BY <1>4 DEF TokenChars
  <2>2. ch # Eos /\ ch # "\n"
    BY <2>1, CharTypes DEF TokenChars, Blanks
  <2>3. Shape("token", <<>>, <<>>, ch)
    BY <2>1 DEF Shape
  <2> QED BY <1>4, <2>2, <2>3, BeginKeepsLex DEF InLexeme
<1>5. CASE ch = Eos /\ Begin("eos", <<>>)
  <2>1. Shape("eos", <<>>, <<>>, ch)
    BY <1>5 DEF Shape
  <2> QED BY <1>5, <2>1, BeginKeepsLex DEF InLexeme
<1> QED BY <1>1, <1>2, <1>3, <1>4, <1>5 DEF lexer_next

LEMMA FirstChKeepsLex == LexInv /\ FirstCh => LexInv'
<1> SUFFICES ASSUME LexInv, FirstCh PROVE LexInv'
  OBVIOUS
<1>1. /\ pc = "first" /\ text = <<>> /\ lexems = <<>> /\ piece = <<>> /\ line = 1 /\ col = 0
      /\ text \in Seq(Delivered) /\ AnySeq(lexems)
      /\ piece' = piece /\ lexems' = lexems
  BY DEF FirstCh, LexInv, LexTypes, NothingYet
<1>2. PlaceIs(text, Len(text), line, col)
  <2>1. PICK B : B = Breaks(text, Len(text))
    OBVIOUS
  <2>2. Len(text) = 0 /\ B = {}
    BY <1>1, <2>1 DEF Breaks
  <2>3. Cardinality(B) = 0
    BY <2>2, FS_EmptySet
  <2>4. Max(B \cup {0}) = 0
    <3>1. B \cup {0} \in SUBSET (0 .. 0) /\ B \cup {0} # {}
      BY <2>2
    <3>2. Max(B \cup {0}) \in B \cup {0}
      BY <3>1, LargestOne
    <3> QED BY <2>2, <3>2
  <2>5. line = 1 + Cardinality(B) /\ col = Len(text) - Max(B \cup {0})
    BY <1>1, <2>2, <2>3, <2>4
  <2> QED BY <2>1, <2>5 DEF PlaceIs
<1>3. \A t : \A n \in 0 .. 1 : Lexed(t, <<>>, n)
  <2>1. DOMAIN <<>> = {}
    OBVIOUS
  <2>2. \A n \in 0 .. 1 : 1 .. n - 1 = {}
    OBVIOUS
  <2> QED BY <2>1, <2>2 DEF Lexed
<1>4. EndsBefore(<<>>, Len(text'))
  BY DEF EndsBefore
<1>5. CASE ch' = Eos /\ pc' = "start" /\ UNCHANGED <<text, line, col>>
  <2>1. CurrentCh'
    BY <1>1, <1>5 DEF CurrentCh
  <2>2. LexTypes' /\ piece' = <<>>
    BY <1>1, <1>5 DEF LexInv, LexTypes
  <2>3. Lexed(text', lexems', Len(text'))
    <3>1. Len(text') = 0
      BY <1>1, <1>5
    <3>2. Lexed(text', <<>>, 0)
      BY <1>3
    <3> QED BY <1>1, <3>1, <3>2
  <2> QED BY <1>1, <1>4, <1>5, <2>1, <2>2, <2>3
          DEF LexInv, NothingYet, BetweenLexemes, WithinLexeme, InLexeme
<1>6. CASE lexer_next_ch("start")
  <2>1. CASE pc' = "failed" /\ text' = text
    <3>1. piece' \in Seq(Delivered)
      BY <1>1 DEF LexInv, LexTypes
    <3> QED BY <1>1, <2>1, <3>1, EndKeepsLex
  <2>2. CASE pc' = "start" /\ \E x \in Delivered : Longer(text, text', x) /\ ch' = x /\ CurrentCh'
    <3>1. text' \in Seq(Delivered) /\ Len(text') = 1 /\ CurrentCh'
      BY <1>1, <2>2 DEF Longer
    <3>2. LexTypes' /\ piece' = <<>>
      BY <1>1, <3>1 DEF LexInv, LexTypes
    <3>3. Lexed(text', lexems', Len(text'))
      BY <1>1, <1>3, <3>1
    <3> QED BY <1>1, <1>4, <2>2, <3>1, <3>2, <3>3
            DEF LexInv, NothingYet, BetweenLexemes, WithinLexeme, InLexeme
  <2> QED BY <1>1, <1>2, <1>6, <2>1, <2>2, CharRead
<1> QED BY <1>5, <1>6 DEF FirstCh

LEMMA BlankKeepsLex == LexInv /\ SkipBlank => LexInv'
<1> SUFFICES ASSUME LexInv, SkipBlank PROVE LexInv'
  OBVIOUS
<1>1. /\ pc = "start" /\ ch \in Blanks /\ lexer_next_ch("start")
      /\ piece' = piece /\ lexems' = lexems
  BY DEF SkipBlank
<1>2. pc \in Going /\ ch # Eos
  BY <1>1, CharTypes DEF Going
<1>3. /\ text \in Seq(Delivered) /\ Len(text) \in Nat /\ Len(text) >= 1
      /\ text[Len(text)] = ch /\ ch \in Delivered /\ PlaceIs(text, Len(text), line, col)
  BY <1>2, ThereIsText
<1>4. /\ piece = <<>> /\ piece \in Seq(Delivered) /\ AnySeq(lexems)
      /\ Lexed(text, lexems, Len(text)) /\ EndsBefore(lexems, Len(text))
  BY <1>1 DEF LexInv, LexTypes, BetweenLexemes
<1>5. CASE pc' = "failed" /\ text' = text
  BY <1>1, <1>4, <1>5, EndKeepsLex
<1>6. CASE pc' = "start" /\ \E x \in Delivered : Longer(text, text', x) /\ ch' = x /\ CurrentCh'
  <2>1. PICK x \in Delivered : Longer(text, text', x) /\ CurrentCh'
    BY <1>6
  <2>2. PICK n \in Nat : n = Len(text)
    BY <1>3
  <2>3. text' \in Seq(Delivered) /\ Len(text') = n + 1
    BY <2>1, <2>2 DEF Longer
  <2>4. n >= 1 /\ text[n] \in Blanks /\ Lexed(text, lexems, n)
    BY <1>1, <1>3, <1>4, <2>2
  <2>5. Lexed(text, lexems, n + 1)
    BY <2>4, LexedToo
  <2>6. Lexed(text', lexems, n + 1)
    <3>1. n + 1 \in Int /\ n + 1 <= Len(text) + 1
      BY <2>2
    <3> QED BY <2>1, <2>5, <3>1, LexedInLonger
  <2>7. EndsBefore(lexems, n + 1)
    <3>1. SUFFICES ASSUME lexems # <<>> PROVE LastOf(lexems[Len(lexems)]) < n + 1
      BY DEF EndsBefore
    <3>2. LastOf(lexems[Len(lexems)]) < n
      BY <1>4, <2>2, <3>1 DEF EndsBefore
    <3>3. LastOf(lexems[Len(lexems)]) \in Int
      <4>1. PICK S : lexems \in Seq(S)
        BY <1>4 DEF AnySeq
      <4>2. Len(lexems) \in DOMAIN lexems
        BY <3>1, <4>1, EmptySeq, LenProperties
      <4>3. PICK l : l = lexems[Len(lexems)]
        OBVIOUS
      <4>4. Stands(text, l)
        BY <1>4, <4>2, <4>3 DEF Lexed
      <4>5. l.at.first \in Nat /\ Len(l.piece) \in Nat
        BY <4>4, LenProperties DEF Stands, WrittenAt
      <4> QED BY <4>3, <4>5 DEF LastOf
    <3> QED BY <3>2, <3>3
  <2>8. LexTypes' /\ piece' = <<>>
    BY <1>1, <1>4, <2>3 DEF LexInv, LexTypes
  <2> QED BY <1>1, <1>6, <2>1, <2>3, <2>6, <2>7, <2>8
          DEF LexInv, NothingYet, BetweenLexemes, WithinLexeme, InLexeme
<1> QED BY <1>1, <1>3, <1>5, <1>6, CharRead

(* Steps that read nothing and say nothing of the text.                    *)
LEMMA SilentKeepLex ==
  ASSUME LexInv, NextStatement \/ lexer_reset \/ lexer_num_mode_integer \/ UNCHANGED lexerVars
  PROVE  LexInv'
<1>1. CASE NextStatement
  <2>1. text' = <<>> /\ piece' = <<>> /\ lexems' = <<>> /\ pc' = "reset"
    BY <1>1 DEF NextStatement
  <2>2. <<>> \in Seq(Delivered) /\ <<>> \in Seq({})
    OBVIOUS
  <2>3. LexTypes'
    BY <2>1, <2>2 DEF LexTypes, AnySeq
  <2> QED BY <2>1, <2>3 DEF LexInv, NothingYet, BetweenLexemes, WithinLexeme, InLexeme, Going
<1>2. CASE lexer_reset
  <2>1. /\ pc = "reset" /\ pc' = "first" /\ line' = 1 /\ col' = 0
        /\ text' = text /\ piece' = piece /\ lexems' = lexems
    BY <1>2 DEF lexer_reset
  <2>2. LexTypes' /\ NothingYet'
    BY <2>1 DEF LexInv, LexTypes, NothingYet
  <2> QED BY <2>1, <2>2 DEF LexInv, BetweenLexemes, WithinLexeme, InLexeme, Going
<1>3. CASE lexer_num_mode_integer \/ UNCHANGED lexerVars
  <2>1. /\ text' = text /\ ch' = ch /\ line' = line /\ col' = col /\ pc' = pc
        /\ piece' = piece /\ value' = value /\ at' = at /\ lexems' = lexems
    BY <1>3 DEF lexer_num_mode_integer, lexerVars
  <2>2. LexTypes' /\ NothingYet' /\ BetweenLexemes'
    BY <2>1 DEF LexInv, LexTypes, NothingYet, BetweenLexemes
  <2>3. WithinLexeme' /\ (pc' \in Going => CurrentCh')
    BY <2>1 DEF LexInv, WithinLexeme, PieceStands, CurrentCh
  <2> QED BY <2>2, <2>3 DEF LexInv
<1> QED BY <1>1, <1>2, <1>3

LEMMA NextKeepsLex == LexInv /\ [LexNext]_lexerVars => LexInv'
<1> SUFFICES ASSUME LexInv, [LexNext]_lexerVars PROVE LexInv'
  OBVIOUS
<1>1. CASE NextStatement \/ lexer_reset \/ lexer_num_mode_integer \/ UNCHANGED lexerVars
  BY <1>1, SilentKeepLex
<1>2. CASE FirstCh
  BY <1>2, FirstChKeepsLex
<1>3. CASE SkipBlank
  BY <1>3, BlankKeepsLex
<1>4. CASE lexer_next
  BY <1>4, NextKeepsPlaceOfLex
<1>5. CASE EndOfText \/ TokenEnd \/ IdentifierEnd \/ LiteralEnd
  BY <1>5, EndsKeepLex
<1>6. CASE Token \/ Identifier
  BY <1>6, TokenKeepsLex, IdentifierKeepsLex
<1>7. CASE NameTooLong \/ Unclosed
  BY <1>7, ErrorKeepsLex DEF NameTooLong, Unclosed
<1>8. CASE LeadingZero \/ WholeDigit \/ FractionDigit \/ ExponentDigit
  BY <1>8, ZeroKeepsLex, WholeDigitKeepsLex, FractionDigitKeepsLex, ExponentDigitKeepsLex
<1>9. CASE Point \/ Exponent \/ Sign \/ NumberEnd
  BY <1>9, PointKeepsLex, SignKeepsLex, NumberEndKeepsLex
<1>10. CASE Quote \/ InsideQuote \/ Content
  BY <1>10, QuoteKeepsLex, InsideQuoteKeepsLex, ContentKeepsLex
<1> QED BY <1>1, <1>2, <1>3, <1>4, <1>5, <1>6, <1>7, <1>8, <1>9, <1>10 DEF LexNext

(* A lexeme that stands in the text is the part of it between its ends.    *)
LEMMA StandsIsPart ==
  ASSUME NEW t \in Seq(Delivered), NEW l, Stands(t, l)
  PROVE  /\ IsLexeme(l.type, l.piece, l.value, t[LastOf(l) + 1])
         /\ l.piece = SubSeq(t, l.at.first, LastOf(l))
<1>1. PICK first \in Nat : first = l.at.first
  BY DEF Stands, WrittenAt
<1>2. PICK s \in Seq(Delivered) : s = l.piece
  BY DEF Stands
<1>3. PICK k \in Nat : k = Len(s)
  BY LenProperties
<1>4. LastOf(l) = first + k - 1
  BY <1>1, <1>2, <1>3 DEF LastOf
<1>5. LastOf(l) + 1 = first + k
  BY <1>4
<1>6. IsLexeme(l.type, l.piece, l.value, t[LastOf(l) + 1])
  BY <1>1, <1>2, <1>3, <1>5 DEF Stands
<1>7. PICK last \in Int : last = first + k - 1
  OBVIOUS
<1>8. CASE k = 0
  <2>1. s = <<>>
    BY <1>3, <1>8, EmptySeq
  <2>2. last < first
    BY <1>7, <1>8
  <2>3. SubSeq(t, first, last) = <<>>
    BY <2>2, SubSeqEmpty
  <2> QED BY <1>1, <1>2, <1>4, <1>6, <1>7, <2>1, <2>3
<1>9. CASE k # 0
  <2>1. \A i \in 1 .. k : s[i] = t[first + i - 1]
    BY <1>1, <1>2, <1>3 DEF Stands, WrittenAt
  <2>2. last - first + 1 = k /\ first <= last
    BY <1>7, <1>9
  <2>3. first >= 1 /\ first + k <= Len(t)
    <3>1. l.type # "eos"
      <4>1. l.type = "eos" => l.piece = <<>>
        BY DEF Stands, IsLexeme
      <4> QED BY <1>2, <1>3, <1>9, <4>1
    <3> QED BY <1>1, <1>2, <1>3, <3>1 DEF Stands, WrittenAt
  <2>4. \A i \in first .. last : t[i] \in Delivered
    <3> TAKE i \in first .. last
    <3>1. i \in 1 .. Len(t)
      BY <1>7, <2>3, LenProperties
    <3> QED BY <3>1, ElementOfSeq
  <2>5. PICK r : r = SubSeq(t, first, last)
    OBVIOUS
  <2>6. /\ r \in Seq(Delivered) /\ Len(r) = (IF first <= last THEN last - first + 1 ELSE 0)
        /\ \A i \in 1 .. last - first + 1 : r[i] = t[first + i - 1]
    BY <2>4, <2>5, SubSeqProperties
  <2>7. Len(r) = Len(s) /\ \A i \in 1 .. Len(r) : r[i] = s[i]
    BY <1>3, <2>1, <2>2, <2>6
  <2>8. r = s
    BY <2>6, <2>7, SeqEqual
  <2> QED BY <1>1, <1>2, <1>4, <1>6, <1>7, <2>5, <2>8
<1> QED BY <1>8, <1>9

(* lexer.c:440-523 and 750-864: whatever the statement, its names, numbers *)
(* and literals, what lexer_next returns is the text of the statement with *)
(* the blanks left out: nothing is skipped or read twice, no lexeme stops  *)
(* before its end, a literal is the content that was written with its      *)
(* quotes doubled, and an error names the place where the lexeme stands.   *)
THEOREM LexemesAreTheText == LexSpec => []Tokenized
<1>1. LexInv => Tokenized
  <2> SUFFICES ASSUME LexInv, pc \in {"start", "done"} PROVE Tokenized
    BY DEF Tokenized
  <2>1. text \in Seq(Delivered) /\ Lexed(text, lexems, Len(text))
    BY DEF LexInv, LexTypes, BetweenLexemes
  <2>2. ASSUME NEW i \in DOMAIN lexems, NEW l, l = lexems[i]
        PROVE  /\ IsLexeme(l.type, l.piece, l.value, Behind(l))
               /\ l.piece = SubSeq(text, l.at.first, LastOf(l))
               /\ i > 1 => LastOf(lexems[i - 1]) < l.at.first
               /\ l.type # "eos" => IsPlace(text, l.at)
    <3>1. Stands(text, l) /\ (i > 1 => LastOf(lexems[i - 1]) < l.at.first)
      BY <2>1, <2>2 DEF Lexed
    <3>2. /\ IsLexeme(l.type, l.piece, l.value, text[LastOf(l) + 1])
          /\ l.piece = SubSeq(text, l.at.first, LastOf(l))
      BY <2>1, <3>1, StandsIsPart
    <3>3. l.type # "eos" => IsPlace(text, l.at)
      BY <3>1 DEF Stands
    <3> QED BY <3>1, <3>2, <3>3 DEF Behind
  <2>3. \A k \in 1 .. Len(text) - 1 : Covered(text, lexems, k)
    BY <2>1 DEF Lexed
  <2> QED BY <2>2, <2>3 DEF Tokenized, Covered
<1> QED BY <1>1, InitLex, NextKeepsLex, PTL DEF LexSpec

----------------------------------------------------------------------------
(* The numbers are exact.  Powers of ten and sums of digits are linear     *)
(* recurrences of n steps, of which the provers know nothing: that there   *)
(* is one, and that two of them agree, is shown for the least step where   *)
(* it would not be so.                                                     *)

(* A sum whose terms are ten times as large.                               *)
Tenfold(s, t, n) == \A i \in 1 .. n : s[i] \in Nat /\ t[i] = 10 * s[i]
LEMMA SumTenfold ==
  ASSUME NEW s, NEW t, NEW n \in Nat, Tenfold(s, t, n)
  PROVE  Linear(0, 1, t, n) = 10 * Linear(0, 1, s, n)
<1> DEFINE S == {k \in 0 .. n : Linear(0, 1, t, k) # 10 * Linear(0, 1, s, k)}
<1> SUFFICES ASSUME S # {} PROVE FALSE
  <2>1. n \in 0 .. n
    OBVIOUS
  <2> QED BY <2>1
<1>1. S \in SUBSET Nat
  OBVIOUS
<1> HIDE DEF S
<1>2. PICK j \in S : \A i \in S : j <= i
  BY <1>1, LeastOne
<1>3. j \in 0 .. n /\ Linear(0, 1, t, j) # 10 * Linear(0, 1, s, j)
  BY <1>2 DEF S
<1>4. j # 0
  BY <1>3, LinearFirst
<1>5. PICK i \in Nat : j = i + 1 /\ i \in 0 .. n /\ i \notin S /\ j \in 1 .. n
  <2>1. j - 1 \in Nat /\ j = (j - 1) + 1 /\ j - 1 \in 0 .. n /\ j - 1 \notin S /\ j \in 1 .. n
    BY <1>1, <1>2, <1>3, <1>4
  <2> QED BY <2>1
<1>6. j \in Nat /\ AgreeTo(s, s, i) /\ AgreeTo(t, t, i)
  BY <1>5 DEF AgreeTo
<1>7. Linear(0, 1, s, j) = 1 * Linear(0, 1, s, i) + s[j]
  BY <1>5, <1>6, LinearNext
<1>8. Linear(0, 1, t, j) = 1 * Linear(0, 1, t, i) + t[j]
  BY <1>5, <1>6, LinearNext
<1>9. Linear(0, 1, t, i) = 10 * Linear(0, 1, s, i)
  BY <1>5 DEF S
<1>10. Linear(0, 1, s, i) \in Nat
  <2>1. Naturals(s, n)
    BY DEF Naturals, Tenfold
  <2>2. 0 \in Nat /\ 1 \in Nat
    OBVIOUS
  <2> QED BY <1>5, <2>1, <2>2, LinearIsNatural
<1>11. s[j] \in Nat /\ t[j] = 10 * s[j]
  BY <1>5 DEF Tenfold
<1>12. PICK p \in Nat, q \in Nat : p = Linear(0, 1, s, i) /\ q = s[j]
  BY <1>10, <1>11
<1>13. 1 * (10 * p) + 10 * q = 10 * (1 * p + q)
  OBVIOUS
<1> QED BY <1>3, <1>7, <1>8, <1>9, <1>11, <1>12, <1>13

LEMMA TenToNone == Ten(0) = 1
BY LinearFirst DEF Ten

LEMMA TenNatural ==
  ASSUME NEW n \in Nat
  PROVE  Ten(n) \in Nat
<1> DEFINE s == [k \in 1 .. n |-> 0]
<1>1. Naturals(s, n)
  BY DEF Naturals
<1> HIDE DEF s
<1>2. 1 \in Nat /\ 10 \in Nat /\ n \in 0 .. n
  OBVIOUS
<1>3. Linear(1, 10, s, n) \in Nat
  BY <1>1, <1>2, LinearIsNatural
<1> QED BY <1>3 DEF Ten, s

LEMMA TenNext ==
  ASSUME NEW n \in Nat
  PROVE  Ten(n + 1) = 10 * Ten(n)
<1> DEFINE s == [k \in 1 .. n |-> 0]
           t == [k \in 1 .. n + 1 |-> 0]
<1>1. AgreeTo(s, t, n) /\ t[n + 1] = 0
  BY DEF AgreeTo
<1>2. Ten(n) = Linear(1, 10, s, n) /\ Ten(n + 1) = Linear(1, 10, t, n + 1)
  BY DEF Ten
<1> HIDE DEF s, t
<1>3. PICK m \in Nat : m = n + 1
  OBVIOUS
<1>4. Linear(1, 10, t, m) = 10 * Linear(1, 10, s, n) + t[m]
  BY <1>1, <1>3, LinearNext
<1>5. PICK p \in Nat : p = Ten(n)
  BY TenNatural
<1>6. 10 * p + 0 = 10 * p
  OBVIOUS
<1> QED BY <1>1, <1>2, <1>3, <1>4, <1>5, <1>6

(* The value of one digit more, with the number scaled.                    *)
LEMMA DigitMore ==
  ASSUME NEW m \in Nat, NEW d \in Nat, NEW ten \in Nat
  PROVE  (10 * m + d) * ten = m * (10 * ten) + d * ten
<1>1. PICK a \in Nat : a = m * ten
  OBVIOUS
<1>2. m * (10 * ten) = 10 * a /\ (10 * m) * ten = 10 * a
  BY <1>1
<1>3. (10 * m + d) * ten = (10 * m) * ten + d * ten
  OBVIOUS
<1> QED BY <1>2, <1>3

LEMMA DigitIsNatural ==
  ASSUME NEW c \in DOMAIN Digits
  PROVE  Digits[c] \in Nat
<1>1. Digits[c] \in 0 .. 9
  BY LexerAssumption DEF LexerAssumption
<1> QED BY <1>1

LEMMA PointIsNoDigit == "." \notin DOMAIN Digits /\ Digits["0"] = 0 /\ "0" \in DOMAIN Digits
BY LexerAssumption, CharTypesAssumption DEF LexerAssumption, CharTypesAssumption

LEMMA TermOfDigit ==
  ASSUME NEW c \in DOMAIN Digits, NEW x \in Nat
  PROVE  Term(c, x) = Digits[c] * Ten(x)
<1>1. c # "."
  BY PointIsNoDigit
<1>2. CASE c = "0"
  <2>1. PICK p \in Nat : p = Ten(x)
    BY TenNatural
  <2>2. 0 * p = 0
    OBVIOUS
  <2>3. Term(c, x) = 0 /\ Digits[c] = 0
    BY <1>2, PointIsNoDigit DEF Term
  <2> QED BY <2>1, <2>2, <2>3
<1>3. CASE c # "0"
  BY <1>1, <1>3 DEF Term
<1> QED BY <1>2, <1>3

Numerals == DOMAIN Digits \cup {"."}
LEMMA TermNatural ==
  ASSUME NEW c \in Numerals, NEW x \in Nat
  PROVE  Term(c, x) \in Nat /\ Term(c, x + 1) = 10 * Term(c, x)
<1>1. CASE c = "."
  <2>1. 10 * 0 = 0 /\ 0 \in Nat
    OBVIOUS
  <2>2. Term(c, x) = 0 /\ Term(c, x + 1) = 0
    BY <1>1 DEF Term
  <2> QED BY <2>1, <2>2
<1>2. CASE c \in DOMAIN Digits
  <2>1. PICK p \in Nat, q \in Nat : p = Ten(x) /\ q = Digits[c]
    BY <1>2, TenNatural, DigitIsNatural
  <2>2. x + 1 \in Nat
    OBVIOUS
  <2>3. Term(c, x) = q * p
    BY <1>2, <2>1, TermOfDigit
  <2>4. Term(c, x + 1) = q * Ten(x + 1)
    BY <1>2, <2>1, <2>2, TermOfDigit
  <2>5. Ten(x + 1) = 10 * p
    BY <2>1, TenNext
  <2>6. q * p \in Nat /\ q * (10 * p) = 10 * (q * p)
    OBVIOUS
  <2> QED BY <2>3, <2>4, <2>5, <2>6
<1> QED BY <1>1, <1>2 DEF Numerals

(* The first n characters of s are digits and points, with weights.        *)
Numeral(s, n) == \A i \in 1 .. n : s[i] \in Numerals

LEMMA WeightNatural ==
  ASSUME NEW n \in Nat, NEW point \in Nat, NEW w \in Nat, n <= point + w, NEW k \in 1 .. n
  PROVE  Weight(k, point, w) \in Nat
BY DEF Weight

LEMMA PlacedNatural ==
  ASSUME NEW s, NEW n \in Nat, NEW point \in Nat, NEW w \in Nat, n <= point + w, Numeral(s, n)
  PROVE  Placed(s, point, w, n) \in Nat
<1> DEFINE terms == [k \in 1 .. n |-> Term(s[k], Weight(k, point, w))]
<1>1. ASSUME NEW k \in 1 .. n PROVE terms[k] \in Nat
  <2>1. s[k] \in Numerals
    BY DEF Numeral
  <2>2. PICK x \in Nat : x = Weight(k, point, w)
    BY WeightNatural
  <2>3. Term(s[k], x) \in Nat
    BY <2>1, TermNatural
  <2> QED BY <2>2, <2>3
<1>2. Placed(s, point, w, n) = Linear(0, 1, terms, n)
  BY DEF Placed
<1>3. Naturals(terms, n)
  BY <1>1 DEF Naturals
<1> HIDE DEF terms
<1>4. 0 \in Nat /\ 1 \in Nat /\ n \in 0 .. n
  OBVIOUS
<1>5. Linear(0, 1, terms, n) \in Nat
  BY <1>3, <1>4, LinearIsNatural
<1> QED BY <1>2, <1>5

(* One character more.                                                     *)
LEMMA PlacedNext ==
  ASSUME NEW s, NEW t, NEW n \in Nat, NEW m \in Nat, m = n + 1,
         NEW point \in Nat, NEW w \in Nat, n <= point + w, Numeral(s, n), AgreeTo(s, t, n)
  PROVE  Placed(t, point, w, m) = Placed(s, point, w, n) + Term(t[m], Weight(m, point, w))
<1> DEFINE a == [k \in 1 .. n |-> Term(s[k], Weight(k, point, w))]
           b == [k \in 1 .. m |-> Term(t[k], Weight(k, point, w))]
<1>1. Placed(s, point, w, n) = Linear(0, 1, a, n) /\ Placed(t, point, w, m) = Linear(0, 1, b, m)
  BY DEF Placed
<1>2. b[m] = Term(t[m], Weight(m, point, w))
  OBVIOUS
<1>3. AgreeTo(a, b, n)
  BY DEF AgreeTo
<1> HIDE DEF a, b
<1>4. Linear(0, 1, b, m) = 1 * Linear(0, 1, a, n) + b[m]
  BY <1>3, LinearNext
<1>5. PICK p \in Nat : p = Placed(s, point, w, n)
  BY PlacedNatural
<1>6. 1 * p = p
  OBVIOUS
<1> QED BY <1>1, <1>2, <1>4, <1>5, <1>6

(* The point one character further.                                        *)
LEMMA PlacedShift ==
  ASSUME NEW s, NEW n \in Nat, NEW point \in Nat, NEW next \in Nat, next = point + 1,
         NEW w \in Nat, n < point, Numeral(s, n)
  PROVE  Placed(s, next, w, n) = 10 * Placed(s, point, w, n)
<1> DEFINE a == [k \in 1 .. n |-> Term(s[k], Weight(k, point, w))]
           b == [k \in 1 .. n |-> Term(s[k], Weight(k, next, w))]
<1>1. ASSUME NEW k \in 1 .. n PROVE a[k] \in Nat /\ b[k] = 10 * a[k]
  <2>1. s[k] \in Numerals
    BY DEF Numeral
  <2>2. PICK x \in Nat : x = Weight(k, point, w) /\ Weight(k, next, w) = x + 1
    BY DEF Weight
  <2>3. Term(s[k], x) \in Nat /\ Term(s[k], x + 1) = 10 * Term(s[k], x)
    BY <2>1, TermNatural
  <2> QED BY <2>2, <2>3
<1>2. Placed(s, point, w, n) = Linear(0, 1, a, n) /\ Placed(s, next, w, n) = Linear(0, 1, b, n)
  BY DEF Placed
<1>3. Tenfold(a, b, n)
  BY <1>1 DEF Tenfold
<1> HIDE DEF a, b
<1> QED BY <1>2, <1>3, SumTenfold

(* A digit before the point.                                               *)
LEMMA WholeMore ==
  ASSUME NEW s, NEW t, NEW n \in Nat, NEW w \in Nat, NEW m \in Nat, NEW c \in DOMAIN Digits,
         Numeral(s, n), AgreeTo(s, t, n), t[n + 1] = c,
         m * Ten(w) = Placed(s, n + 1, w, n)
  PROVE  (10 * m + Digits[c]) * Ten(w) = Placed(t, n + 2, w, n + 1)
<1>1. PICK j \in Nat, k \in Nat : j = n + 1 /\ k = n + 2
  OBVIOUS
<1>2. PICK d \in Nat, ten \in Nat, p \in Nat :
        d = Digits[c] /\ ten = Ten(w) /\ p = Placed(s, n + 1, w, n)
  <2>1. n <= j + w
    BY <1>1
  <2> QED BY <1>1, <2>1, DigitIsNatural, TenNatural, PlacedNatural
<1>3. Placed(s, k, w, n) = 10 * Placed(s, j, w, n)
  <2>1. k = j + 1 /\ n < j
    BY <1>1
  <2> QED BY <2>1, PlacedShift
<1>4. Placed(t, k, w, j) = Placed(s, k, w, n) + Term(t[j], Weight(j, k, w))
  <2>1. n <= k + w
    BY <1>1
  <2> QED BY <1>1, <2>1, PlacedNext
<1>5. Weight(j, k, w) = w
  BY <1>1 DEF Weight
<1>6. Term(c, w) = Digits[c] * Ten(w)
  BY TermOfDigit
<1>7. (10 * m + d) * ten = m * (10 * ten) + d * ten
  BY DigitMore
<1>8. m * (10 * ten) = 10 * (m * ten)
  OBVIOUS
<1> QED BY <1>1, <1>2, <1>3, <1>4, <1>5, <1>6, <1>7, <1>8

(* A digit behind the point.                                               *)
LEMMA FractionMore ==
  ASSUME NEW s, NEW t, NEW n \in Nat, NEW w \in Nat, NEW m \in Nat, NEW c \in DOMAIN Digits,
         NEW point \in Nat, NEW x \in Nat, NEW y \in Nat,
         point <= n, y = w - (n - point), y = x + 1,
         Numeral(s, n), AgreeTo(s, t, n), t[n + 1] = c,
         m * Ten(y) = Placed(s, point, w, n)
  PROVE  (10 * m + Digits[c]) * Ten(x) = Placed(t, point, w, n + 1)
<1>1. PICK j \in Nat : j = n + 1
  OBVIOUS
<1>2. n <= point + w
  OBVIOUS
<1>3. PICK d \in Nat, ten \in Nat : d = Digits[c] /\ ten = Ten(x)
  BY DigitIsNatural, TenNatural
<1>4. Placed(t, point, w, j) = Placed(s, point, w, n) + Term(t[j], Weight(j, point, w))
  BY <1>1, <1>2, PlacedNext
<1>5. Weight(j, point, w) = x
  BY <1>1 DEF Weight
<1>6. Term(c, x) = Digits[c] * Ten(x)
  BY TermOfDigit
<1>7. Ten(y) = 10 * ten
  BY <1>3, TenNext
<1>8. (10 * m + d) * ten = m * (10 * ten) + d * ten
  BY DigitMore
<1> QED BY <1>1, <1>3, <1>4, <1>5, <1>6, <1>7, <1>8

(* The point itself.                                                       *)
LEMMA PointMore ==
  ASSUME NEW s, NEW t, NEW n \in Nat, NEW w \in Nat, NEW j \in Nat, j = n + 1,
         Numeral(s, n), AgreeTo(s, t, n), t[j] = "."
  PROVE  Placed(t, j, w, j) = Placed(s, j, w, n)
<1>1. n <= j + w
  OBVIOUS
<1>2. Placed(t, j, w, j) = Placed(s, j, w, n) + Term(t[j], Weight(j, j, w))
  BY <1>1, PlacedNext
<1>3. Term(t[j], Weight(j, j, w)) = 0
  BY DEF Term
<1>4. PICK p \in Nat : p = Placed(s, j, w, n)
  BY <1>1, PlacedNatural
<1>5. p + 0 = p
  OBVIOUS
<1> QED BY <1>2, <1>3, <1>4, <1>5

LEMMA PlacedSame ==
  ASSUME NEW s, NEW t, NEW point, NEW w, NEW n \in Nat, AgreeTo(s, t, n)
  PROVE  Placed(t, point, w, n) = Placed(s, point, w, n)
<1> DEFINE a == [k \in 1 .. n |-> Term(s[k], Weight(k, point, w))]
           b == [k \in 1 .. n |-> Term(t[k], Weight(k, point, w))]
<1>1. Placed(s, point, w, n) = Linear(0, 1, a, n) /\ Placed(t, point, w, n) = Linear(0, 1, b, n)
  BY DEF Placed
<1>2. AgreeTo(a, b, n)
  BY DEF AgreeTo
<1> HIDE DEF a, b
<1> QED BY <1>1, <1>2, LinearSame

(* The digits of an exponent.                                              *)
LEMMA NoExponentDigit ==
  ASSUME NEW s, NEW exp
  PROVE  ExponentDigits(s, exp, 0) = 0
BY LinearFirst DEF ExponentDigits

TenTimes(s, t, exp, n, j) ==
  ExponentDigits(t, exp, j) = 10 * ExponentDigits(s, exp, n) + Digits[t[exp + 1 + j]]
LEMMA ExponentDigitMore ==
  ASSUME NEW s, NEW t, NEW exp \in Nat, NEW n \in Nat, NEW j \in Nat, j = n + 1,
         AgreeTo(s, t, exp + 1 + n)
  PROVE  TenTimes(s, t, exp, n, j)
<1> DEFINE a == [k \in 1 .. n |-> Digits[s[exp + 1 + k]]]
           b == [k \in 1 .. j |-> Digits[t[exp + 1 + k]]]
<1>1. ExponentDigits(s, exp, n) = Linear(0, 10, a, n) /\ ExponentDigits(t, exp, j) = Linear(0, 10, b, j)
  BY DEF ExponentDigits
<1>2. AgreeTo(a, b, n)
  <2> SUFFICES ASSUME NEW k \in 1 .. n PROVE a[k] = b[k]
    BY DEF AgreeTo
  <2>1. exp + 1 + k \in 1 .. exp + 1 + n /\ k \in 1 .. j
    OBVIOUS
  <2>2. s[exp + 1 + k] = t[exp + 1 + k]
    BY <2>1 DEF AgreeTo
  <2> QED BY <2>1, <2>2
<1>3. b[j] = Digits[t[exp + 1 + j]]
  OBVIOUS
<1> HIDE DEF a, b
<1>4. Linear(0, 10, b, j) = 10 * Linear(0, 10, a, n) + b[j]
  BY <1>2, LinearNext
<1> QED BY <1>1, <1>3, <1>4 DEF TenTimes

(* The parts of what has been read of a number: the exponent begins at exp *)
(* and the point is at point, where there are such characters.             *)
Parts(s, exp, point) ==
  /\ exp \in Nat /\ exp >= 1 /\ exp <= Len(s) + 1
  /\ point \in Nat /\ point >= 1 /\ point <= exp
  /\ \A i \in 1 .. Len(s) : i < exp /\ i # point => s[i] \in DOMAIN Digits
  /\ point < exp => s[point] = "."
  /\ exp <= Len(s) => s[exp] \in {"e", "E"}
  /\ \A i \in 1 .. Len(s) : i > exp => s[i] \in DOMAIN Digits \cup {"+", "-"}

(* What it is worth so far.                                                *)
Numbers == [m : Nat, n : Nat, e : Nat, d : Nat, sign : {-1, 0, 1}]
Mantissa(s, exp, point, v) ==
  /\ v.e = IF point < exp THEN exp - 1 - point ELSE 0
  /\ \A x \in Nat, w \in Nat : w = x + v.e => v.m * Ten(x) = Placed(s, point, w, exp - 1)
Power(s, exp, v) ==
  IF exp >= Len(s) THEN v.d = 0 /\ v.sign = 0
  ELSE /\ v.sign = IF s[exp + 1] = "-" THEN -1 ELSE 1
       /\ v.d = ExponentDigits(s, exp, Len(s) - exp - 1)
IsNumeral(s, exp, point, v) ==
  s \in Seq(Chars) /\ v \in Numbers /\ Parts(s, exp, point)
  /\ Mantissa(s, exp, point, v) /\ Power(s, exp, v)

LEMMA PartsNumeral ==
  ASSUME NEW s \in Seq(Chars), NEW exp, NEW point, Parts(s, exp, point), NEW n \in Nat, n = exp - 1
  PROVE  Numeral(s, n)
<1> SUFFICES ASSUME NEW i \in 1 .. n PROVE s[i] \in Numerals
  BY DEF Numeral
<1>1. i \in 1 .. Len(s) /\ i < exp
  BY DEF Parts
<1> QED BY <1>1 DEF Parts, Numerals

(* A character more.                                                       *)
Grown(s, t, c, n, j) ==
  /\ s \in Seq(Chars) /\ t \in Seq(Chars) /\ n \in Nat /\ j \in Nat /\ j = n + 1
  /\ Len(s) = n /\ Len(t) = j /\ AgreeTo(s, t, n) /\ t[j] = c

LEMMA AppendGrows ==
  ASSUME NEW s \in Seq(Chars), NEW c \in Chars
  PROVE  Grown(s, Append(s, c), c, Len(s), Len(s) + 1)
<1>0. Len(s) \in Nat
  OBVIOUS
<1>1. PICK n, t : n = Len(s) /\ t = Append(s, c)
  OBVIOUS
<1>2. t \in Seq(Chars) /\ Len(t) = n + 1 /\ t[n + 1] = c /\ \A i \in 1 .. n : s[i] = t[i]
  BY <1>0, <1>1, AppendProperties
<1> QED BY <1>0, <1>1, <1>2 DEF Grown, AgreeTo

LEMMA DigitIsChar == DOMAIN Digits \subseteq Chars /\ {".", "+", "-", "e", "E"} \subseteq Chars
BY LexerAssumption DEF LexerAssumption, Chars, Letters

(* The steps of a number.                                                  *)
LEMMA WholeNumeral ==
  ASSUME NEW s, NEW t, NEW n, NEW j, NEW c \in DOMAIN Digits, NEW v, NEW u \in Numbers,
         Grown(s, t, c, n, j), IsNumeral(s, j, j, v),
         u.m = 10 * v.m + Digits[c], u.e = v.e, u.d = v.d, u.sign = v.sign
  PROVE  IsNumeral(t, j + 1, j + 1, u)
<1> USE DEF Grown
<1>1. PICK k \in Nat : k = j + 1 /\ k = n + 2 /\ k - 1 = j /\ j - 1 = n
  OBVIOUS
<1>2. v.m \in Nat /\ v.e = 0 /\ u.e = 0 /\ v.d = 0 /\ v.sign = 0
  BY DEF IsNumeral, Numbers, Mantissa, Power
<1>3. Parts(t, k, k)
  <2>1. \A i \in 1 .. n : s[i] \in DOMAIN Digits
    BY DEF IsNumeral, Parts
  <2>2. \A i \in 1 .. n : t[i] \in DOMAIN Digits
    BY <2>1 DEF AgreeTo
  <2>3. \A i \in 1 .. j : t[i] \in DOMAIN Digits
    <3> TAKE i \in 1 .. j
    <3>1. CASE i = j
      BY <3>1
    <3>2. CASE i # j
      <4>1. i \in 1 .. n
        BY <3>2
      <4> QED BY <2>2, <4>1
    <3> QED BY <3>1, <3>2
  <2> QED BY <1>1, <2>3 DEF Parts
<1>4. Power(t, k, u)
  BY <1>1, <1>2 DEF Power
<1>5. Mantissa(t, k, k, u)
  <2> SUFFICES ASSUME NEW x \in Nat PROVE u.m * Ten(x) = Placed(t, k, x, j)
    BY <1>1, <1>2 DEF Mantissa
  <2>1. v.m * Ten(x) = Placed(s, j, x, n)
    BY <1>1, <1>2 DEF IsNumeral, Mantissa
  <2>2. Numeral(s, n)
    BY <1>1, PartsNumeral DEF IsNumeral
  <2>3. AgreeTo(s, t, n) /\ t[n + 1] = c /\ v.m * Ten(x) = Placed(s, n + 1, x, n)
    BY <2>1
  <2>4. (10 * v.m + Digits[c]) * Ten(x) = Placed(t, n + 2, x, n + 1)
    BY <1>2, <2>2, <2>3, WholeMore
  <2> QED BY <1>1, <2>4
<1> QED BY <1>1, <1>3, <1>4, <1>5 DEF IsNumeral

LEMMA PointNumeral ==
  ASSUME NEW s, NEW t, NEW n, NEW j, NEW v,
         Grown(s, t, ".", n, j), IsNumeral(s, j, j, v)
  PROVE  IsNumeral(t, j + 1, j, v)
<1> USE DEF Grown
<1>1. PICK k \in Nat : k = j + 1 /\ k - 1 = j /\ j - 1 = n
  OBVIOUS
<1>2. v.m \in Nat /\ v.e = 0 /\ v.d = 0 /\ v.sign = 0
  BY DEF IsNumeral, Numbers, Mantissa, Power
<1>3. Parts(t, k, j)
  <2>1. \A i \in 1 .. n : s[i] \in DOMAIN Digits
    BY DEF IsNumeral, Parts
  <2>2. \A i \in 1 .. n : t[i] \in DOMAIN Digits
    BY <2>1 DEF AgreeTo
  <2>3. \A i \in 1 .. j : i # j => t[i] \in DOMAIN Digits
    <3> TAKE i \in 1 .. j
    <3>1. i # j => i \in 1 .. n
      OBVIOUS
    <3> QED BY <2>2, <3>1
  <2> QED BY <1>1, <2>3 DEF Parts
<1>4. Power(t, k, v)
  BY <1>1, <1>2 DEF Power
<1>5. Mantissa(t, k, j, v)
  <2> SUFFICES ASSUME NEW x \in Nat PROVE v.m * Ten(x) = Placed(t, j, x, j)
    BY <1>1, <1>2 DEF Mantissa
  <2>1. v.m * Ten(x) = Placed(s, j, x, n)
    BY <1>1, <1>2 DEF IsNumeral, Mantissa
  <2>2. Numeral(s, n)
    BY <1>1, PartsNumeral DEF IsNumeral
  <2>3. AgreeTo(s, t, n) /\ t[j] = "."
    OBVIOUS
  <2>4. Placed(t, j, x, j) = Placed(s, j, x, n)
    BY <2>2, <2>3, PointMore
  <2> QED BY <2>1, <2>4
<1> QED BY <1>1, <1>3, <1>4, <1>5 DEF IsNumeral

LEMMA FractionNumeral ==
  ASSUME NEW s, NEW t, NEW n, NEW j, NEW c \in DOMAIN Digits, NEW v, NEW u \in Numbers, NEW point,
         Grown(s, t, c, n, j), IsNumeral(s, j, point, v), point < j,
         u.m = 10 * v.m + Digits[c], u.e = v.e + 1, u.d = v.d, u.sign = v.sign
  PROVE  IsNumeral(t, j + 1, point, u)
<1> USE DEF Grown
<1>1. PICK k \in Nat : k = j + 1 /\ k - 1 = j /\ j - 1 = n
  OBVIOUS
<1>2. v.m \in Nat /\ v.e = n - point /\ u.e = j - point /\ v.d = 0 /\ v.sign = 0 /\ point \in Nat /\ point <= n
  BY <1>1 DEF IsNumeral, Numbers, Mantissa, Power, Parts
<1>3. Parts(t, k, point)
  <2>1. /\ \A i \in 1 .. n : i # point => s[i] \in DOMAIN Digits
        /\ s[point] = "." /\ point \in 1 .. n
    BY <1>2 DEF IsNumeral, Parts
  <2>2. (\A i \in 1 .. n : i # point => t[i] \in DOMAIN Digits) /\ t[point] = "."
    BY <2>1 DEF AgreeTo
  <2>3. \A i \in 1 .. j : i # point => t[i] \in DOMAIN Digits
    <3> TAKE i \in 1 .. j
    <3>1. CASE i = j
      BY <3>1
    <3>2. CASE i # j
      <4>1. i \in 1 .. n
        BY <3>2
      <4> QED BY <2>2, <4>1
    <3> QED BY <3>1, <3>2
  <2> QED BY <1>1, <2>1, <2>2, <2>3 DEF Parts
<1>4. Power(t, k, u)
  BY <1>1, <1>2 DEF Power
<1>5. Mantissa(t, k, point, u)
  <2> SUFFICES ASSUME NEW x \in Nat, NEW w \in Nat, w = x + u.e
               PROVE  u.m * Ten(x) = Placed(t, point, w, j)
    BY <1>1, <1>2 DEF Mantissa
  <2>1. PICK y \in Nat : y = x + 1
    OBVIOUS
  <2>2. w = y + v.e /\ y = w - (n - point)
    BY <1>2, <2>1
  <2>3. v.m * Ten(y) = Placed(s, point, w, n)
    BY <1>1, <2>2 DEF IsNumeral, Mantissa
  <2>4. Numeral(s, n)
    BY <1>1, PartsNumeral DEF IsNumeral
  <2>5. AgreeTo(s, t, n) /\ t[n + 1] = c
    OBVIOUS
  <2>6. (10 * v.m + Digits[c]) * Ten(x) = Placed(t, point, w, n + 1)
    BY <1>2, <2>1, <2>2, <2>3, <2>4, <2>5, FractionMore
  <2> QED BY <2>6
<1> QED BY <1>1, <1>3, <1>4, <1>5 DEF IsNumeral

(* The e, its sign and its digits leave the mantissa as it is.             *)
LEMMA MantissaKept ==
  ASSUME NEW s, NEW t, NEW c, NEW n, NEW j, Grown(s, t, c, n, j), NEW exp, NEW point, NEW v, NEW u,
         Parts(s, exp, point), Mantissa(s, exp, point, v), u.m = v.m, u.e = v.e
  PROVE  Mantissa(t, exp, point, u)
<1>1. PICK i \in Nat : i = exp - 1 /\ i <= n
  BY DEF Parts, Grown
<1>2. AgreeTo(s, t, i)
  BY <1>1 DEF Grown, AgreeTo
<1>3. \A w : Placed(t, point, w, i) = Placed(s, point, w, i)
  BY <1>1, <1>2, PlacedSame
<1> QED BY <1>1, <1>3 DEF Mantissa

LEMMA ExponentNumeral ==
  ASSUME NEW s, NEW t, NEW n, NEW j, NEW c \in {"e", "E"}, NEW v, NEW point,
         Grown(s, t, c, n, j), IsNumeral(s, j, point, v)
  PROVE  IsNumeral(t, j, point, v)
<1>1. Mantissa(t, j, point, v)
  BY MantissaKept DEF IsNumeral
<1>2. Power(t, j, v)
  BY DEF IsNumeral, Power, Grown
<1>3. Parts(t, j, point)
  <2>1. \A i \in 1 .. n : t[i] = s[i]
    BY DEF Grown, AgreeTo
  <2>2. n \in Nat /\ j = n + 1 /\ Len(s) = n /\ Len(t) = j /\ t[j] = c
    BY DEF Grown
  <2>3. Parts(s, j, point)
    BY DEF IsNumeral
  <2>4. \A i \in 1 .. j : i < j /\ i # point => t[i] \in DOMAIN Digits
    <3> TAKE i \in 1 .. j
    <3>1. i < j => i \in 1 .. n
      BY <2>2
    <3> QED BY <2>1, <2>2, <2>3, <3>1 DEF Parts
  <2>5. point < j => t[point] = "."
    <3>1. point < j => point \in 1 .. n
      BY <2>2, <2>3 DEF Parts
    <3> QED BY <2>1, <2>3, <3>1 DEF Parts
  <2> QED BY <2>2, <2>3, <2>4, <2>5 DEF Parts
<1> QED BY <1>1, <1>2, <1>3 DEF IsNumeral, Grown

(* A sign or a digit of the exponent.                                      *)
LEMMA PartsBehindExponent ==
  ASSUME NEW s, NEW t, NEW c \in DOMAIN Digits \cup {"+", "-"}, NEW n, NEW j,
         Grown(s, t, c, n, j), NEW exp, NEW point, Parts(s, exp, point), exp <= n
  PROVE  Parts(t, exp, point)
<1>1. \A i \in 1 .. n : t[i] = s[i]
  BY DEF Grown, AgreeTo
<1>2. n \in Nat /\ j = n + 1 /\ Len(s) = n /\ Len(t) = j /\ t[j] = c /\ exp \in 1 .. n
  BY DEF Grown, Parts
<1>3. \A i \in 1 .. j : i < exp /\ i # point => t[i] \in DOMAIN Digits
  <2> TAKE i \in 1 .. j
  <2>1. i < exp => i \in 1 .. n
    BY <1>2
  <2> QED BY <1>1, <1>2, <2>1 DEF Parts
<1>4. \A i \in 1 .. j : i > exp => t[i] \in DOMAIN Digits \cup {"+", "-"}
  <2> TAKE i \in 1 .. j
  <2>1. CASE i = j
    BY <1>2, <2>1
  <2>2. CASE i # j
    <3>1. i \in 1 .. n
      BY <1>2, <2>2
    <3> QED BY <1>1, <1>2, <3>1 DEF Parts
  <2> QED BY <2>1, <2>2
<1>5. point < exp => t[point] = "."
  <2>1. point < exp => point \in 1 .. n
    BY <1>2 DEF Parts
  <2> QED BY <1>1, <2>1 DEF Parts
<1>6. t[exp] \in {"e", "E"}
  BY <1>1, <1>2 DEF Parts
<1> QED BY <1>2, <1>3, <1>4, <1>5, <1>6 DEF Parts

LEMMA SignNumeral ==
  ASSUME NEW s, NEW t, NEW n, NEW j, NEW c \in {"+", "-"}, NEW v, NEW u \in Numbers, NEW point,
         Grown(s, t, c, n, j), IsNumeral(s, n, point, v),
         u.m = v.m, u.e = v.e, u.d = v.d, u.sign = IF c = "-" THEN -1 ELSE 1
  PROVE  IsNumeral(t, n, point, u)
<1>1. n \in Nat /\ j = n + 1 /\ Len(s) = n /\ Len(t) = j /\ t[n + 1] = c
  BY DEF Grown
<1>2. Mantissa(t, n, point, u)
  BY MantissaKept DEF IsNumeral
<1>3. Parts(t, n, point)
  BY <1>1, PartsBehindExponent DEF IsNumeral
<1>4. Power(t, n, u)
  <2>1. u.d = 0
    BY <1>1 DEF IsNumeral, Power
  <2>2. Len(t) - n - 1 = 0 /\ ~ n >= Len(t)
    BY <1>1
  <2>3. ExponentDigits(t, n, 0) = 0
    BY NoExponentDigit
  <2>4. u.d = ExponentDigits(t, n, Len(t) - n - 1)
    BY <2>1, <2>2, <2>3
  <2> QED BY <1>1, <2>2, <2>4 DEF Power
<1> QED BY <1>2, <1>3, <1>4 DEF IsNumeral, Grown

LEMMA ExponentDigitNumeral ==
  ASSUME NEW s, NEW t, NEW n, NEW j, NEW c \in DOMAIN Digits, NEW v, NEW u \in Numbers, NEW exp,
         NEW point, Grown(s, t, c, n, j), IsNumeral(s, exp, point, v), exp < n,
         u.m = v.m, u.e = v.e, u.d = 10 * v.d + Digits[c], u.sign = v.sign
  PROVE  IsNumeral(t, exp, point, u)
<1>1. n \in Nat /\ j = n + 1 /\ Len(s) = n /\ Len(t) = j /\ t[j] = c /\ exp \in Nat
  BY DEF Grown, IsNumeral, Parts
<1>2. Mantissa(t, exp, point, u)
  BY MantissaKept DEF IsNumeral
<1>3. Parts(t, exp, point)
  <2>1. c \in DOMAIN Digits \cup {"+", "-"} /\ exp <= n /\ Parts(s, exp, point)
    BY <1>1 DEF IsNumeral
  <2> QED BY <2>1, PartsBehindExponent
<1>4. Power(t, exp, u)
  <2>1. PICK k \in Nat, l \in Nat : k = n - exp - 1 /\ l = k + 1 /\ exp + 1 + k = n /\ exp + 1 + l = j
    <3>1. n - exp - 1 \in Nat /\ (n - exp - 1) + 1 \in Nat /\ exp + 1 + (n - exp - 1) = n
          /\ exp + 1 + ((n - exp - 1) + 1) = j
      BY <1>1
    <3> QED BY <3>1
  <2>2. v.sign = (IF s[exp + 1] = "-" THEN -1 ELSE 1) /\ v.d = ExponentDigits(s, exp, k)
    BY <1>1, <2>1 DEF IsNumeral, Power
  <2>3. AgreeTo(s, t, exp + 1 + k)
    BY <2>1 DEF Grown
  <2>4. ExponentDigits(t, exp, l) = 10 * ExponentDigits(s, exp, k) + Digits[t[exp + 1 + l]]
    <3>1. exp \in Nat /\ k \in Nat /\ l \in Nat /\ l = k + 1 /\ AgreeTo(s, t, exp + 1 + k)
      BY <1>1, <2>1, <2>3
    <3>2. TenTimes(s, t, exp, k, l)
      BY <3>1, ExponentDigitMore
    <3> QED BY <3>2 DEF TenTimes
  <2>5. t[exp + 1] = s[exp + 1]
    <3>1. exp + 1 \in 1 .. n
      BY <1>1
    <3> QED BY <3>1 DEF Grown, AgreeTo
  <2>6. Len(t) - exp - 1 = l /\ ~ exp >= Len(t)
    BY <1>1, <2>1
  <2>7. u.d = ExponentDigits(t, exp, l)
    BY <1>1, <2>1, <2>2, <2>4
  <2>8. u.sign = IF t[exp + 1] = "-" THEN -1 ELSE 1
    BY <2>2, <2>5
  <2> QED BY <2>6, <2>7, <2>8 DEF Power
<1> QED BY <1>2, <1>3, <1>4 DEF IsNumeral, Grown

(* The least of a set.                                                     *)
LEMMA MinIs ==
  ASSUME NEW S \in SUBSET Int, NEW x \in S, \A y \in S : x <= y
  PROVE  Min(S) = x
<1>1. \A z \in S : (\A y \in S : z <= y) => z = x
  <2> SUFFICES ASSUME NEW z \in S, \A y \in S : z <= y PROVE z = x
    OBVIOUS
  <2>1. z \in Int /\ x \in Int /\ z <= x /\ x <= z
    OBVIOUS
  <2> QED BY <2>1
<1>2. \A y \in S : Min(S) <= y
  BY DEF Min
<1>3. Min(S) \in S
  BY DEF Min
<1> QED BY <1>1, <1>2, <1>3

LEMMA NoDigits == "e" \notin DOMAIN Digits /\ "E" \notin DOMAIN Digits /\ "." \notin DOMAIN Digits
BY LexerAssumption, CharTypesAssumption DEF LexerAssumption, CharTypesAssumption, Letters

LEMMA PartsFound ==
  ASSUME NEW s \in Seq(Chars), NEW exp, NEW point, Parts(s, exp, point)
  PROVE  /\ IndexOr(s, {"e", "E"}, Len(s) + 1) = exp
         /\ IndexOr(s, {"."}, exp) = point
<1>1. PICK n \in Nat : n = Len(s) /\ DOMAIN s = 1 .. n
  OBVIOUS
<1>2. /\ exp \in Nat /\ exp >= 1 /\ exp <= n + 1 /\ point \in Nat /\ point >= 1 /\ point <= exp
      /\ \A i \in 1 .. n : i < exp /\ i # point => s[i] \in DOMAIN Digits
      /\ point < exp => s[point] = "."
      /\ exp <= n => s[exp] \in {"e", "E"}
      /\ \A i \in 1 .. n : i > exp => s[i] \in DOMAIN Digits \cup {"+", "-"}
  BY <1>1 DEF Parts
<1>3. \A i \in 1 .. n : s[i] \in {"e", "E"} => i >= exp
  <2> SUFFICES ASSUME NEW i \in 1 .. n, s[i] \in {"e", "E"}, i < exp PROVE FALSE
    BY <1>2
  <2>1. CASE i = point
    BY <1>2, <2>1
  <2>2. CASE i # point
    BY <1>2, <2>2, NoDigits
  <2> QED BY <2>1, <2>2
<1>4. \A i \in 1 .. n : s[i] = "." => i >= point
  <2> SUFFICES ASSUME NEW i \in 1 .. n, s[i] = ".", i < point PROVE FALSE
    BY <1>2
  <2>1. i < exp /\ i # point
    BY <1>2
  <2> QED BY <1>2, <2>1, NoDigits
<1>5. IndexOr(s, {"e", "E"}, Len(s) + 1) = exp
  <2>1. PICK S : S = {i \in DOMAIN s : s[i] \in {"e", "E"}} \cup {n + 1}
    OBVIOUS
  <2>2. S \in SUBSET Int /\ exp \in S
    BY <1>1, <1>2, <2>1
  <2>3. \A y \in S : exp <= y
    BY <1>1, <1>2, <1>3, <2>1
  <2>4. Min(S) = exp
    BY <2>2, <2>3, MinIs
  <2> QED BY <1>1, <2>1, <2>4 DEF IndexOr
<1>6. IndexOr(s, {"."}, exp) = point
  <2>1. PICK S : S = {i \in DOMAIN s : s[i] \in {"."}} \cup {exp}
    OBVIOUS
  <2>2. S \in SUBSET Int /\ point \in S
    BY <1>1, <1>2, <2>1
  <2>3. \A y \in S : point <= y
    BY <1>1, <1>2, <1>4, <2>1
  <2>4. Min(S) = point
    BY <2>2, <2>3, MinIs
  <2> QED BY <2>1, <2>4 DEF IndexOr
<1> QED BY <1>5, <1>6

(* A number that has been read to its end is worth what its text says.     *)
LEMMA NumeralWorth ==
  ASSUME NEW s, NEW exp, NEW point, NEW v, IsNumeral(s, exp, point, v), exp # Len(s),
         NEW scale \in Nat, NEW x \in Nat, x = (v.sign * v.d - v.e) + scale
  PROVE  v.m * Ten(x) = WorthOf(s, scale)
<1>1. s \in Seq(Chars) /\ Parts(s, exp, point) /\ v \in Numbers
  BY DEF IsNumeral
<1>2. IndexOr(s, {"e", "E"}, Len(s) + 1) = exp /\ IndexOr(s, {"."}, exp) = point
  BY <1>1, PartsFound
<1>3. PICK n \in Nat : n = Len(s)
  BY <1>1
<1>4. exp \in Nat /\ exp <= n + 1
  BY <1>1, <1>3 DEF Parts
<1>5. v.sign \in {-1, 0, 1} /\ v.d \in Nat /\ v.e \in Nat /\ v.m \in Nat
  BY <1>1 DEF Numbers
<1> DEFINE e == IF exp > Len(s) THEN 0 ELSE WrittenExponent(s, exp)
<1>6. WorthOf(s, scale) = Placed(s, point, e + scale, exp - 1)
  BY <1>2 DEF WorthOf
<1>7. e = v.sign * v.d
  <2>1. CASE exp > n
    <3>1. v.d = 0 /\ v.sign = 0
      BY <1>3, <1>4, <2>1 DEF IsNumeral, Power
    <3> QED BY <1>3, <2>1, <3>1
  <2>2. CASE ~ exp > n
    <3>1. exp < n
      BY <1>3, <1>4, <2>2
    <3>2. v.sign = (IF s[exp + 1] = "-" THEN -1 ELSE 1) /\ v.d = ExponentDigits(s, exp, Len(s) - exp - 1)
      BY <1>3, <1>4, <3>1 DEF IsNumeral, Power
    <3>3. WrittenExponent(s, exp) = v.d * v.sign
      BY <3>2 DEF WrittenExponent
    <3>4. v.d * v.sign = v.sign * v.d
      BY <1>5
    <3> QED BY <1>3, <2>2, <3>3, <3>4
  <2> QED BY <2>1, <2>2
<1> HIDE DEF e
<1>8. PICK q \in Int : q = v.sign * v.d
  BY <1>5
<1>9. PICK w \in Nat : w = e + scale /\ w = x + v.e
  <2>1. q + scale = x + v.e /\ q + scale \in Nat
    BY <1>5, <1>8
  <2> QED BY <1>7, <1>8, <2>1
<1>10. v.m * Ten(x) = Placed(s, point, w, exp - 1)
  BY <1>9 DEF IsNumeral, Mantissa
<1> QED BY <1>6, <1>9, <1>10

(* The inductive invariant: what has been made of the characters of the    *)
(* number that is being read is what they are worth so far, and the        *)
(* numbers that were read are exact.                                       *)
InNumber == {"zeros", "digits", "fraction", "sign", "exponent"}
Within(state, s, exp, point) ==
  /\ state \in {"zeros", "digits"} => exp = Len(s) + 1 /\ point = exp
  /\ state = "fraction" => exp = Len(s) + 1 /\ point < exp
  /\ state = "sign" => exp = Len(s)
  /\ state = "exponent" => exp < Len(s)
Places(mode, v) == v \in Numbers /\ v.e <= v.n /\ (mode = 0 => v.n <= Positions)
Reading(state, mode, s, v) ==
  state \in InNumber =>
    /\ Places(mode, v)
    /\ mode = 1 => state \in {"zeros", "digits"}
    /\ state = "zeros" => v.m = 0
    /\ \E exp, point : IsNumeral(s, exp, point, v) /\ Within(state, s, exp, point)

Exact(l) ==
  l.type = "number" =>
    l.value.m * Ten((l.value.sign * l.value.d - l.value.e) + (Positions - MinExp))
      = WorthOf(l.piece, Positions - MinExp)
AllExact(ls) == AnySeq(ls) /\ \A i \in DOMAIN ls : Exact(ls[i])
NumInv == Reading(pc, num_mode, piece, value) /\ AllExact(lexems)

LEMMA NothingRead ==
  ASSUME NEW mode \in {0, 1}
  PROVE  Reading("zeros", mode, <<>>, NoNumber)
<1>1. NoNumber \in Numbers /\ NoNumber.m = 0 /\ NoNumber.e = 0 /\ NoNumber.d = 0 /\ NoNumber.sign = 0
      /\ NoNumber.n = 0
  BY DEF NoNumber, Numbers
<1>2. <<>> \in Seq(Chars) /\ Len(<<>>) = 0
  OBVIOUS
<1>3. Parts(<<>>, 1, 1)
  BY <1>2 DEF Parts
<1>4. Power(<<>>, 1, NoNumber)
  BY <1>1, <1>2 DEF Power
<1>5. Mantissa(<<>>, 1, 1, NoNumber)
  <2>1. \A x \in Nat, w \in Nat : 0 * Ten(x) = Placed(<<>>, 1, w, 0)
    <3> TAKE x \in Nat, w \in Nat
    <3>1. Placed(<<>>, 1, w, 0) = 0
      BY LinearFirst DEF Placed
    <3>2. PICK p \in Nat : p = Ten(x)
      BY TenNatural
    <3>3. 0 * p = 0
      OBVIOUS
    <3> QED BY <3>1, <3>2, <3>3
  <2>2. 1 - 1 = 0
    OBVIOUS
  <2> QED BY <1>1, <2>1, <2>2 DEF Mantissa
<1>6. IsNumeral(<<>>, 1, 1, NoNumber)
  BY <1>1, <1>2, <1>3, <1>4, <1>5 DEF IsNumeral
<1>7. Within("zeros", <<>>, 1, 1)
  BY <1>2 DEF Within
<1>8. Places(mode, NoNumber)
  <2>0. Positions \in Nat
    BY LexerAssumption DEF LexerAssumption
  <2>1. 0 <= Positions /\ 0 <= 0
    BY <2>0
  <2> QED BY <1>1, <2>1 DEF Places
<1> QED BY <1>1, <1>6, <1>7, <1>8 DEF Reading

LEMMA InitNumbers == LexInit => NumInv
<1> SUFFICES ASSUME LexInit PROVE NumInv
  OBVIOUS
<1>1. pc \notin InNumber /\ lexems = <<>>
  BY DEF LexInit, InNumber
<1>2. <<>> \in Seq({}) /\ DOMAIN <<>> = {}
  OBVIOUS
<1> QED BY <1>1, <1>2 DEF NumInv, Reading, AllExact, AnySeq

(* A step that returns nothing and reads no number.                        *)
LEMMA ElsewhereNumbers ==
  ASSUME NumInv, lexems' = lexems, pc' \notin InNumber
  PROVE  NumInv'
BY DEF NumInv, Reading

LEMMA ErrorKeepsNumbers ==
  ASSUME NumInv, NEW reason, lexer_report_error(reason)
  PROVE  NumInv'
<1>1. lexems' = lexems /\ pc' \notin InNumber
  BY DEF lexer_report_error, InNumber
<1> QED BY <1>1, ElsewhereNumbers

(* A character of a number is taken.                                       *)
LEMMA TakeKeepsNumbers ==
  ASSUME NumInv, NEW v, NEW to, Take(v, to), Reading(to, num_mode, Append(piece, ch), v)
  PROVE  NumInv'
<1>1. /\ lexems' = lexems /\ num_mode' = num_mode /\ piece' = Append(piece, ch) /\ value' = v
      /\ pc' \in {to, "failed"}
  BY NextCharGoes DEF Take
<1>2. CASE pc' = to
  BY <1>1, <1>2 DEF NumInv
<1>3. CASE pc' = "failed"
  <2>1. pc' \notin InNumber
    BY <1>3 DEF InNumber
  <2> QED BY <1>1, <2>1, ElsewhereNumbers
<1> QED BY <1>1, <1>2, <1>3

LEMMA TakesOthers ==
  ASSUME NumInv, NEW v, NEW to, Take(v, to), to \notin InNumber
  PROVE  NumInv'
<1>1. Reading(to, num_mode, Append(piece, ch), v)
  BY DEF Reading
<1> QED BY <1>1, TakeKeepsNumbers

(* A digit of the number before its exponent.                              *)
LEMMA WholeDigitReads ==
  ASSUME NEW state \in {"zeros", "digits"}, NEW mode \in {0, 1}, NEW s, NEW v,
         Reading(state, mode, s, v), NEW c \in DOMAIN Digits, NEW u \in Numbers,
         u.m = 10 * v.m + Digits[c], u.e = v.e, u.d = v.d, u.sign = v.sign,
         Places(mode, u), state = "zeros" => u.m = 0
  PROVE  Reading(state, mode, Append(s, c), u)
<1>1. PICK exp, point : IsNumeral(s, exp, point, v) /\ Within(state, s, exp, point)
  BY DEF Reading, InNumber
<1>2. PICK n, j, t : n = Len(s) /\ j = Len(s) + 1 /\ t = Append(s, c)
  OBVIOUS
<1>3. Grown(s, t, c, n, j) /\ IsNumeral(s, j, j, v)
  BY <1>1, <1>2, AppendGrows, DigitIsChar DEF IsNumeral, Within
<1>4. IsNumeral(t, j + 1, j + 1, u)
  BY <1>3, WholeNumeral
<1>5. Within(state, t, j + 1, j + 1)
  BY <1>3 DEF Within, Grown
<1> QED BY <1>2, <1>4, <1>5 DEF Reading, InNumber

LEMMA PointReads ==
  ASSUME NEW s, NEW v, Reading("digits", 0, s, v)
  PROVE  Reading("fraction", 0, Append(s, "."), v)
<1>0. Places(0, v)
  BY DEF Reading, InNumber
<1>1. PICK exp, point : IsNumeral(s, exp, point, v) /\ Within("digits", s, exp, point)
  BY DEF Reading, InNumber
<1>2. PICK n, j, t, c : n = Len(s) /\ j = Len(s) + 1 /\ t = Append(s, c) /\ c = "."
  OBVIOUS
<1>3. Grown(s, t, c, n, j) /\ IsNumeral(s, j, j, v)
  BY <1>1, <1>2, AppendGrows, DigitIsChar DEF IsNumeral, Within
<1>4. IsNumeral(t, j + 1, j, v)
  BY <1>2, <1>3, PointNumeral
<1>5. Within("fraction", t, j + 1, j)
  BY <1>3 DEF Within, Grown
<1> QED BY <1>0, <1>2, <1>4, <1>5 DEF Reading, InNumber

LEMMA FractionDigitReads ==
  ASSUME NEW s, NEW v, Reading("fraction", 0, s, v), NEW c \in DOMAIN Digits, NEW u \in Numbers,
         u.m = 10 * v.m + Digits[c], u.e = v.e + 1, u.d = v.d, u.sign = v.sign, Places(0, u)
  PROVE  Reading("fraction", 0, Append(s, c), u)
<1>1. PICK exp, point : IsNumeral(s, exp, point, v) /\ Within("fraction", s, exp, point)
  BY DEF Reading, InNumber
<1>2. PICK n, j, t : n = Len(s) /\ j = Len(s) + 1 /\ t = Append(s, c)
  OBVIOUS
<1>3. Grown(s, t, c, n, j) /\ IsNumeral(s, j, point, v) /\ point < j
  BY <1>1, <1>2, AppendGrows, DigitIsChar DEF IsNumeral, Within
<1>4. IsNumeral(t, j + 1, point, u)
  BY <1>3, FractionNumeral
<1>5. Within("fraction", t, j + 1, point)
  BY <1>3 DEF Within, Grown, IsNumeral, Parts
<1> QED BY <1>2, <1>4, <1>5 DEF Reading, InNumber

LEMMA ExponentReads ==
  ASSUME NEW state \in {"digits", "fraction"}, NEW s, NEW v, Reading(state, 0, s, v),
         NEW c \in {"e", "E"}
  PROVE  Reading("sign", 0, Append(s, c), v)
<1>0. Places(0, v)
  BY DEF Reading, InNumber
<1>1. PICK exp, point : IsNumeral(s, exp, point, v) /\ Within(state, s, exp, point)
  BY DEF Reading, InNumber
<1>2. PICK n, j, t : n = Len(s) /\ j = Len(s) + 1 /\ t = Append(s, c)
  OBVIOUS
<1>3. Grown(s, t, c, n, j) /\ IsNumeral(s, j, point, v)
  BY <1>1, <1>2, AppendGrows, DigitIsChar DEF IsNumeral, Within
<1>4. IsNumeral(t, j, point, v)
  BY <1>3, ExponentNumeral
<1>5. Within("sign", t, j, point)
  BY <1>3 DEF Within, Grown
<1> QED BY <1>0, <1>2, <1>4, <1>5 DEF Reading, InNumber

LEMMA SignReads ==
  ASSUME NEW s, NEW v, Reading("sign", 0, s, v), NEW c \in {"+", "-"}, NEW u \in Numbers,
         u.m = v.m, u.e = v.e, u.d = v.d, u.sign = (IF c = "-" THEN -1 ELSE 1), Places(0, u)
  PROVE  Reading("exponent", 0, Append(s, c), u)
<1>1. PICK exp, point : IsNumeral(s, exp, point, v) /\ Within("sign", s, exp, point)
  BY DEF Reading, InNumber
<1>2. PICK n, j, t : n = Len(s) /\ j = Len(s) + 1 /\ t = Append(s, c)
  OBVIOUS
<1>3. Grown(s, t, c, n, j) /\ IsNumeral(s, n, point, v)
  BY <1>1, <1>2, AppendGrows, DigitIsChar DEF IsNumeral, Within
<1>4. IsNumeral(t, n, point, u)
  BY <1>3, SignNumeral
<1>5. Within("exponent", t, n, point)
  BY <1>3 DEF Within, Grown
<1> QED BY <1>2, <1>4, <1>5 DEF Reading, InNumber

LEMMA ExponentDigitReads ==
  ASSUME NEW s, NEW v, Reading("exponent", 0, s, v), NEW c \in DOMAIN Digits, NEW u \in Numbers,
         u.m = v.m, u.e = v.e, u.d = 10 * v.d + Digits[c], u.sign = v.sign, Places(0, u)
  PROVE  Reading("exponent", 0, Append(s, c), u)
<1>1. PICK exp, point : IsNumeral(s, exp, point, v) /\ Within("exponent", s, exp, point)
  BY DEF Reading, InNumber
<1>2. PICK n, j, t : n = Len(s) /\ j = Len(s) + 1 /\ t = Append(s, c)
  OBVIOUS
<1>3. Grown(s, t, c, n, j) /\ exp < n /\ exp \in Nat
  BY <1>1, <1>2, AppendGrows, DigitIsChar DEF IsNumeral, Within, Parts
<1>4. IsNumeral(t, exp, point, u)
  BY <1>1, <1>3, ExponentDigitNumeral
<1>5. Within("exponent", t, exp, point)
  BY <1>3 DEF Within, Grown
<1> QED BY <1>2, <1>4, <1>5 DEF Reading, InNumber

LEMMA ReadingKnows ==
  ASSUME NumInv, WholePart, pc \in InNumber
  PROVE  /\ Reading(pc, num_mode, piece, value) /\ Places(num_mode, value) /\ num_mode \in {0, 1}
         /\ num_mode = 1 => pc \in {"zeros", "digits"}
         /\ pc = "zeros" => value.m = 0
BY DEF NumInv, Reading, WholePart

LEMMA ZeroKeepsNumbers == NumInv /\ WholePart /\ LeadingZero => NumInv'
<1> SUFFICES ASSUME NumInv, WholePart, LeadingZero PROVE NumInv'
  OBVIOUS
<1>1. pc = "zeros" /\ pc \in InNumber
  BY DEF LeadingZero, InNumber
<1>2. Reading("zeros", num_mode, piece, value) /\ Places(num_mode, value) /\ num_mode \in {0, 1} /\ value.m = 0
  BY <1>1, ReadingKnows
<1>3. CASE ch = "0" /\ Take(value, "zeros")
  <2>1. value \in Numbers /\ ch \in DOMAIN Digits /\ Digits[ch] = 0 /\ 10 * 0 + 0 = 0
    BY <1>2, <1>3, PointIsNoDigit DEF Places
  <2>2. value.m = 10 * value.m + Digits[ch]
    BY <1>2, <2>1
  <2>3. Reading("zeros", num_mode, Append(piece, ch), value)
    BY <1>2, <2>1, <2>2, WholeDigitReads
  <2> QED BY <1>3, <2>3, TakeKeepsNumbers
<1>4. CASE ch # "0" /\ pc' = "digits" /\ UNCHANGED <<piece, value, num_mode, lexems>>
  <2>1. PICK exp, point : IsNumeral(piece, exp, point, value) /\ Within("zeros", piece, exp, point)
    BY <1>2 DEF Reading, InNumber
  <2>2. Within("digits", piece, exp, point)
    BY <2>1 DEF Within
  <2>3. Reading("digits", num_mode, piece, value)
    BY <1>2, <2>1, <2>2 DEF Reading
  <2> QED BY <1>4, <2>3 DEF NumInv
<1> QED BY <1>3, <1>4 DEF LeadingZero

LEMMA WithDigitIs ==
  ASSUME NEW places \in {0, 1}, value \in Numbers, ch \in DOMAIN Digits
  PROVE  /\ WithDigit(places) \in Numbers /\ WithDigit(places).m = 10 * value.m + Digits[ch]
         /\ WithDigit(places).n = value.n + 1 /\ WithDigit(places).e = value.e + places
         /\ WithDigit(places).d = value.d /\ WithDigit(places).sign = value.sign
<1>1. value.m \in Nat /\ value.n \in Nat /\ value.e \in Nat /\ value.d \in Nat /\ value.sign \in {-1, 0, 1}
  BY DEF Numbers
<1>2. Digits[ch] \in Nat
  BY DigitIsNatural
<1>3. 10 * value.m + Digits[ch] \in Nat /\ value.n + 1 \in Nat /\ value.e + places \in Nat
  BY <1>1, <1>2
<1> QED BY <1>1, <1>3 DEF WithDigit, Numbers

LEMMA WholeDigitKeepsNumbers == NumInv /\ WholePart /\ WholeDigit => NumInv'
<1> SUFFICES ASSUME NumInv, WholePart, WholeDigit PROVE NumInv'
  OBVIOUS
<1>1. pc = "digits" /\ pc \in InNumber /\ ch \in DOMAIN Digits
  BY DEF WholeDigit, InNumber, AtDigit
<1>2. Reading("digits", num_mode, piece, value) /\ Places(num_mode, value) /\ num_mode \in {0, 1}
  BY <1>1, ReadingKnows
<1>3. CASE Full /\ lexer_report_error(IF num_mode = 1 THEN "integer" ELSE "mantissa")
  BY <1>3, ErrorKeepsNumbers
<1>4. CASE ~ Full /\ Take(WithDigit(0), "digits")
  <2>1. PICK u : u = WithDigit(0)
    OBVIOUS
  <2>2. value \in Numbers /\ value.e \in Nat /\ value.n \in Nat /\ value.e <= value.n
    BY <1>2 DEF Places, Numbers
  <2>3. /\ u \in Numbers /\ u.m = 10 * value.m + Digits[ch] /\ u.n = value.n + 1
        /\ u.e = value.e + 0 /\ u.d = value.d /\ u.sign = value.sign
    BY <1>1, <2>1, <2>2, WithDigitIs
  <2>4. u.e = value.e
    BY <2>2, <2>3
  <2>5. num_mode = 0 => u.n <= Positions
    <3>1. Positions \in Nat
      BY LexerAssumption DEF LexerAssumption
    <3>2. num_mode = 0 => ~ value.n >= Positions
      BY <1>4 DEF Full, MantissaFull
    <3> QED BY <2>2, <2>3, <3>1, <3>2
  <2>6. Places(num_mode, u)
    BY <2>2, <2>3, <2>4, <2>5 DEF Places
  <2>7. Reading("digits", num_mode, Append(piece, ch), u)
    BY <1>1, <1>2, <2>3, <2>4, <2>6, WholeDigitReads
  <2> QED BY <1>4, <2>1, <2>7, TakeKeepsNumbers
<1> QED BY <1>3, <1>4 DEF WholeDigit

LEMMA FractionDigitKeepsNumbers == NumInv /\ WholePart /\ FractionDigit => NumInv'
<1> SUFFICES ASSUME NumInv, WholePart, FractionDigit PROVE NumInv'
  OBVIOUS
<1>1. pc = "fraction" /\ pc \in InNumber /\ ch \in DOMAIN Digits
  BY DEF FractionDigit, InNumber, AtDigit
<1>2. Reading("fraction", 0, piece, value) /\ Places(0, value) /\ num_mode = 0
  BY <1>1, ReadingKnows
<1>3. CASE MantissaFull /\ lexer_report_error("mantissa")
  BY <1>3, ErrorKeepsNumbers
<1>4. CASE ~ MantissaFull /\ Take(WithDigit(1), "fraction")
  <2>1. PICK u : u = WithDigit(1)
    OBVIOUS
  <2>2. value \in Numbers /\ value.e \in Nat /\ value.n \in Nat /\ value.e <= value.n
    BY <1>2 DEF Places, Numbers
  <2>3. /\ u \in Numbers /\ u.m = 10 * value.m + Digits[ch] /\ u.n = value.n + 1
        /\ u.e = value.e + 1 /\ u.d = value.d /\ u.sign = value.sign
    BY <1>1, <2>1, <2>2, WithDigitIs
  <2>4. u.n <= Positions /\ u.e <= u.n
    <3>1. Positions \in Nat
      BY LexerAssumption DEF LexerAssumption
    <3>2. ~ value.n >= Positions
      BY <1>4 DEF MantissaFull
    <3> QED BY <2>2, <2>3, <3>1, <3>2
  <2>5. Places(0, u)
    BY <2>3, <2>4 DEF Places
  <2>6. Reading("fraction", 0, Append(piece, ch), u)
    BY <1>1, <1>2, <2>3, <2>5, FractionDigitReads
  <2> QED BY <1>2, <1>4, <2>1, <2>6, TakeKeepsNumbers
<1> QED BY <1>3, <1>4 DEF FractionDigit

LEMMA PointKeepsNumbers == NumInv /\ WholePart /\ (Point \/ Exponent) => NumInv'
<1> SUFFICES ASSUME NumInv, WholePart, Point \/ Exponent PROVE NumInv'
  OBVIOUS
<1>1. pc \in {"digits", "fraction"} /\ pc \in InNumber /\ num_mode = 0
  BY DEF Point, Exponent, InNumber
<1>2. Reading(pc, 0, piece, value)
  BY <1>1, ReadingKnows
<1>3. CASE Point
  <2>1. pc = "digits" /\ ch = "." /\ Take(value, "fraction")
    BY <1>3 DEF Point
  <2>2. Reading("fraction", 0, Append(piece, ch), value)
    BY <1>2, <2>1, PointReads
  <2> QED BY <1>1, <2>1, <2>2, TakeKeepsNumbers
<1>4. CASE Exponent
  <2>1. ch \in {"e", "E"} /\ Take(value, "sign")
    BY <1>4 DEF Exponent
  <2>2. Reading("sign", 0, Append(piece, ch), value)
    BY <1>1, <1>2, <2>1, ExponentReads
  <2> QED BY <1>1, <2>1, <2>2, TakeKeepsNumbers
<1> QED BY <1>3, <1>4

LEMMA SignKeepsNumbers == NumInv /\ WholePart /\ Sign => NumInv'
<1> SUFFICES ASSUME NumInv, WholePart, Sign PROVE NumInv'
  OBVIOUS
<1>1. pc = "sign" /\ pc \in InNumber
  BY DEF Sign, InNumber
<1>2. Reading("sign", 0, piece, value) /\ Places(0, value) /\ num_mode = 0
  BY <1>1, ReadingKnows
<1>3. value \in Numbers
  BY <1>2 DEF Places
<1>4. ASSUME ch \in {"+", "-"}, NEW u, u = [value EXCEPT !.sign = IF ch = "-" THEN -1 ELSE 1]
      PROVE  Reading("exponent", 0, Append(piece, ch), u)
  <2>1. /\ u \in Numbers /\ u.m = value.m /\ u.n = value.n /\ u.e = value.e /\ u.d = value.d
        /\ u.sign = (IF ch = "-" THEN -1 ELSE 1)
    BY <1>3, <1>4 DEF Numbers
  <2>2. Places(0, u)
    BY <1>2, <2>1 DEF Places
  <2> QED BY <1>2, <1>4, <2>1, <2>2, SignReads
<1>5. CASE ch = "+" /\ Take([value EXCEPT !.sign = 1], "exponent")
  <2>1. PICK u : u = [value EXCEPT !.sign = 1]
    OBVIOUS
  <2>2. ch \in {"+", "-"} /\ u = [value EXCEPT !.sign = IF ch = "-" THEN -1 ELSE 1]
    BY <1>5, <2>1
  <2>3. Reading("exponent", 0, Append(piece, ch), u)
    BY <1>4, <2>2
  <2> QED BY <1>2, <1>5, <2>1, <2>3, TakeKeepsNumbers
<1>6. CASE ch = "-" /\ Take([value EXCEPT !.sign = -1], "exponent")
  <2>1. PICK u : u = [value EXCEPT !.sign = -1]
    OBVIOUS
  <2>2. ch \in {"+", "-"} /\ u = [value EXCEPT !.sign = IF ch = "-" THEN -1 ELSE 1]
    BY <1>6, <2>1
  <2>3. Reading("exponent", 0, Append(piece, ch), u)
    BY <1>4, <2>2
  <2> QED BY <1>2, <1>6, <2>1, <2>3, TakeKeepsNumbers
<1>7. CASE lexer_report_error("sign")
  BY <1>7, ErrorKeepsNumbers
<1> QED BY <1>5, <1>6, <1>7 DEF Sign

LEMMA ExponentDigitKeepsNumbers == NumInv /\ WholePart /\ ExponentDigit => NumInv'
<1> SUFFICES ASSUME NumInv, WholePart, ExponentDigit PROVE NumInv'
  OBVIOUS
<1>1. pc = "exponent" /\ pc \in InNumber /\ ch \in DOMAIN Digits
  BY DEF ExponentDigit, InNumber, AtDigit
<1>2. Reading("exponent", 0, piece, value) /\ Places(0, value) /\ num_mode = 0
  BY <1>1, ReadingKnows
<1>3. PICK d, u : d = 10 * value.d + Digits[ch] /\ u = [value EXCEPT !.d = d]
  OBVIOUS
<1>4. lexer_report_error("exponent") \/ Take(u, "exponent")
  BY <1>3 DEF ExponentDigit
<1>5. CASE lexer_report_error("exponent")
  BY <1>5, ErrorKeepsNumbers
<1>6. CASE Take(u, "exponent")
  <2>1. value \in Numbers /\ value.d \in Nat
    BY <1>2 DEF Places, Numbers
  <2>2. d \in Nat
    <3>1. PICK a \in Nat, b \in Nat : a = value.d /\ b = Digits[ch]
      BY <1>1, <2>1, DigitIsNatural
    <3>2. 10 * a + b \in Nat
      OBVIOUS
    <3> QED BY <1>3, <3>1, <3>2
  <2>3. /\ u \in Numbers /\ u.m = value.m /\ u.n = value.n /\ u.e = value.e /\ u.d = d
        /\ u.sign = value.sign
    BY <1>3, <2>1, <2>2 DEF Numbers
  <2>4. Places(0, u)
    BY <1>2, <2>3 DEF Places
  <2>5. u.d = 10 * value.d + Digits[ch]
    BY <1>3, <2>3
  <2>6. Reading("exponent", 0, Append(piece, ch), u)
    BY <1>1, <1>2, <2>3, <2>4, <2>5, ExponentDigitReads
  <2> QED BY <1>2, <1>6, <2>6, TakeKeepsNumbers
<1> QED BY <1>4, <1>5, <1>6

(* A lexeme is returned.                                                   *)
LEMMA ExactAppended ==
  ASSUME NEW ls, AllExact(ls), NEW l, Exact(l)
  PROVE  AllExact(Append(ls, l))
<1>1. PICK S : ls \in Seq(S)
  BY DEF AllExact, AnySeq
<1>2. PICK n, ms, X : n = Len(ls) /\ ms = Append(ls, l) /\ X = S \cup {l}
  OBVIOUS
<1>3. ls \in Seq(X) /\ l \in X /\ n \in Nat
  BY <1>1, <1>2
<1>4. ms \in Seq(X) /\ Len(ms) = n + 1 /\ ms[n + 1] = l /\ \A i \in 1 .. n : ms[i] = ls[i]
  BY <1>2, <1>3, AppendProperties
<1>5. \A i \in DOMAIN ms : Exact(ms[i])
  <2> TAKE i \in DOMAIN ms
  <2>1. i \in 1 .. n + 1
    BY <1>3, <1>4
  <2>2. CASE i = n + 1
    BY <1>4, <2>2
  <2>3. CASE i # n + 1
    <3>1. i \in 1 .. n /\ i \in DOMAIN ls
      BY <1>2, <1>3, <2>1, <2>3
    <3> QED BY <1>4, <3>1 DEF AllExact
  <2> QED BY <2>2, <2>3
<1>6. AllExact(ms)
  BY <1>4, <1>5 DEF AllExact, AnySeq
<1> QED BY <1>2, <1>6

LEMMA ReturnKeepsNumbers ==
  ASSUME NumInv, NEW type, Return(type), Exact(Lexem(type))
  PROVE  NumInv'
<1>1. lexems' = Append(lexems, Lexem(type)) /\ pc' \notin InNumber
  BY DEF Return, InNumber
<1>2. AllExact(lexems')
  BY <1>1, ExactAppended DEF NumInv
<1> QED BY <1>1, <1>2 DEF NumInv, Reading

LEMMA NumberEndKeepsNumbers == NumInv /\ WholePart /\ NumberEnd => NumInv'
<1> SUFFICES ASSUME NumInv, WholePart, NumberEnd PROVE NumInv'
  OBVIOUS
<1>1. CASE lexer_report_error("exponent")
  BY <1>1, ErrorKeepsNumbers
<1>2. CASE Return("number") /\ (pc # "exponent" \/ InRange)
  <2>1. pc \in {"digits", "fraction", "exponent"} /\ pc \in InNumber
    BY DEF NumberEnd, InNumber
  <2>2. Reading(pc, num_mode, piece, value) /\ Places(num_mode, value) /\ num_mode \in {0, 1}
        /\ (num_mode = 1 => pc = "digits")
    BY <2>1, ReadingKnows
  <2>3. PICK exp, point : IsNumeral(piece, exp, point, value) /\ Within(pc, piece, exp, point)
    BY <2>1, <2>2 DEF Reading
  <2>4. /\ value.m \in Nat /\ value.n \in Nat /\ value.e \in Nat /\ value.d \in Nat
        /\ value.sign \in {-1, 0, 1} /\ value.e <= value.n /\ (num_mode = 0 => value.n <= Positions)
    BY <2>2 DEF Places, Numbers
  <2>5. Positions \in Nat /\ MinExp \in Int /\ MinExp <= 0 /\ MaxExp \in Int
    BY LexerAssumption DEF LexerAssumption
  <2>6. PICK n \in Nat : n = Len(piece)
    BY <2>3 DEF IsNumeral
  <2>7. exp # n /\ exp \in Nat /\ (pc # "exponent" => exp = n + 1) /\ (pc = "digits" => point = exp)
    BY <2>1, <2>3, <2>6 DEF Within, IsNumeral, Parts
  <2>8. PICK scale \in Nat : scale = Positions - MinExp
    BY <2>5
  <2>9. PICK q \in Int : q = value.sign * value.d
    BY <2>4
  <2>10. (q - value.e) + scale \in Nat
    <3>1. CASE pc = "exponent"
      <4>1. q - value.e \in MinExp .. MaxExp
        BY <1>2, <2>9, <3>1 DEF InRange, TotalExponent
      <4> QED BY <2>4, <2>5, <2>8, <4>1
    <3>2. CASE pc # "exponent"
      <4>1. value.d = 0 /\ value.sign = 0
        BY <2>6, <2>7, <3>2, <2>3 DEF IsNumeral, Power
      <4>2. q = 0
        BY <2>9, <4>1
      <4>3. value.e <= Positions
        <5>1. CASE num_mode = 0
          BY <2>4, <2>5, <5>1
        <5>2. CASE num_mode = 1
          <6>1. value.e = 0
            BY <2>2, <2>3, <2>7, <5>2 DEF IsNumeral, Mantissa
          <6> QED BY <2>5, <6>1
        <5> QED BY <2>2, <5>1, <5>2
      <4> QED BY <2>4, <2>5, <2>8, <4>2, <4>3
    <3> QED BY <3>1, <3>2
  <2>11. PICK x \in Nat : x = (q - value.e) + scale
    BY <2>10
  <2>12. x = (value.sign * value.d - value.e) + scale /\ exp # Len(piece)
    BY <2>6, <2>7, <2>9, <2>11
  <2>13. value.m * Ten(x) = WorthOf(piece, scale)
    BY <2>3, <2>12, NumeralWorth
  <2>14. Exact(Lexem("number"))
    BY <2>8, <2>12, <2>13 DEF Exact, Lexem
  <2> QED BY <1>2, <2>14, ReturnKeepsNumbers
<1> QED BY <1>1, <1>2 DEF NumberEnd

(* The other steps.                                                        *)
LEMMA OthersKeepNumbers ==
  ASSUME NumInv, WholePart, LexInv,
         \/ NextStatement \/ lexer_reset \/ FirstCh \/ SkipBlank \/ lexer_num_mode_integer \/ lexer_next
         \/ EndOfText \/ Token \/ TokenEnd \/ Identifier \/ NameTooLong \/ IdentifierEnd
         \/ Quote \/ InsideQuote \/ Content \/ Unclosed \/ LiteralEnd \/ UNCHANGED lexerVars
  PROVE  NumInv'
<1>1. CASE NextStatement
  <2>1. lexems' = <<>> /\ pc' \notin InNumber
    BY <1>1 DEF NextStatement, InNumber
  <2>2. <<>> \in Seq({}) /\ DOMAIN <<>> = {}
    OBVIOUS
  <2> QED BY <2>1, <2>2 DEF NumInv, Reading, AllExact, AnySeq
<1>2. CASE lexer_reset
  BY <1>2, ElsewhereNumbers DEF lexer_reset, InNumber
<1>3. CASE FirstCh \/ SkipBlank
  <2>1. lexems' = lexems /\ pc' \in {"start", "failed"}
    BY <1>3, NextCharGoes DEF FirstCh, SkipBlank
  <2> QED BY <2>1, ElsewhereNumbers DEF InNumber
<1>4. CASE lexer_num_mode_integer
  <2>1. lexems' = lexems /\ pc' = "start"
    BY <1>4 DEF lexer_num_mode_integer
  <2> QED BY <2>1, ElsewhereNumbers DEF InNumber
<1>5. CASE lexer_next
  <2>1. CASE Begin("zeros", NoNumber)
    <3>1. /\ pc = "start" /\ pc' = "zeros" /\ value' = NoNumber /\ piece' = piece
          /\ lexems' = lexems /\ num_mode' = num_mode
      BY <2>1 DEF Begin
    <3>2. piece = <<>> /\ num_mode \in {0, 1}
      BY <3>1 DEF LexInv, BetweenLexemes, WholePart
    <3>3. Reading("zeros", num_mode, <<>>, NoNumber)
      BY <3>2, NothingRead
    <3> QED BY <3>1, <3>2, <3>3 DEF NumInv
  <2>2. CASE \E state \in {"identifier", "quote", "token", "eos"} : Begin(state, <<>>)
    <3>1. lexems' = lexems /\ pc' \in {"identifier", "quote", "token", "eos"}
      BY <2>2 DEF Begin
    <3> QED BY <3>1, ElsewhereNumbers DEF InNumber
  <2> QED BY <1>5, <2>1, <2>2 DEF lexer_next
<1>6. CASE EndOfText \/ TokenEnd \/ IdentifierEnd \/ LiteralEnd
  <2>1. PICK type \in {"eos", "token", "reserved", "identifier", "literal"} : Return(type)
    BY <1>6 DEF EndOfText, TokenEnd, IdentifierEnd, LiteralEnd
  <2>2. Exact(Lexem(type))
    BY DEF Exact, Lexem
  <2> QED BY <2>1, <2>2, ReturnKeepsNumbers
<1>7. CASE NameTooLong \/ Unclosed
  BY <1>7, ErrorKeepsNumbers DEF NameTooLong, Unclosed
<1>8. CASE Token \/ Identifier \/ Quote \/ InsideQuote
  <2>1. Take(<<>>, "token_end") \/ Take(<<>>, "identifier") \/ Take(<<>>, "inside")
        \/ Take(value, "closing")
    BY <1>8 DEF Token, Identifier, Quote, InsideQuote
  <2>2. {"token_end", "identifier", "inside", "closing"} \cap InNumber = {}
    BY DEF InNumber
  <2> QED BY <2>1, <2>2, TakesOthers
<1>9. CASE Content
  <2>1. lexer_report_error("literal") \/ Take(Append(value, ch), "inside")
    BY <1>9 DEF Content
  <2>2. "inside" \notin InNumber
    BY DEF InNumber
  <2> QED BY <2>1, <2>2, TakesOthers, ErrorKeepsNumbers
<1>10. CASE UNCHANGED lexerVars
  BY <1>10 DEF lexerVars, NumInv
<1> QED BY <1>1, <1>2, <1>3, <1>4, <1>5, <1>6, <1>7, <1>8, <1>9, <1>10

LEMMA NextKeepsNumbers == NumInv /\ WholePart /\ LexInv /\ [LexNext]_lexerVars => NumInv'
<1> SUFFICES ASSUME NumInv, WholePart, LexInv, [LexNext]_lexerVars PROVE NumInv'
  OBVIOUS
<1>1. CASE LeadingZero \/ WholeDigit \/ FractionDigit \/ ExponentDigit
  BY <1>1, ZeroKeepsNumbers, WholeDigitKeepsNumbers, FractionDigitKeepsNumbers, ExponentDigitKeepsNumbers
<1>2. CASE Point \/ Exponent \/ Sign \/ NumberEnd
  BY <1>2, PointKeepsNumbers, SignKeepsNumbers, NumberEndKeepsNumbers
<1>3. ASSUME ~ (LeadingZero \/ WholeDigit \/ FractionDigit \/ ExponentDigit),
             ~ (Point \/ Exponent \/ Sign \/ NumberEnd)
      PROVE  NumInv'
  BY <1>3, OthersKeepNumbers DEF LexNext
<1> QED BY <1>1, <1>2, <1>3

(* lexer.c:608-748: whatever the digits, the leading zeros, the point and  *)
(* the exponent, a number that lexer_next returns is the value its text    *)
(* has: the places behind the point are counted once, the mantissa loses   *)
(* no digit, and the exponent is the one that is written.                  *)
THEOREM NumbersKeepTheirWorth == LexSpec => []NumbersExact
<1>1. NumInv => NumbersExact
  <2> SUFFICES ASSUME NumInv, NEW i \in DOMAIN lexems, lexems[i].type = "number"
               PROVE  LET v == lexems[i].value
                          e == v.sign * v.d - v.e
                          scale == Positions - MinExp
                      IN v.m * Ten(e + scale) = WorthOf(lexems[i].piece, scale)
    BY DEF NumbersExact
  <2>1. Exact(lexems[i])
    BY DEF NumInv, AllExact
  <2> QED BY <2>1 DEF Exact
<1> QED
  BY <1>1, InitNumbers, InitWhole, InitLex, NextKeepsNumbers, NextKeepsWhole, NextKeepsLex, PTL
     DEF LexSpec
============================================================================
