------------------------------- MODULE Lexer -------------------------------
(***************************************************************************)
(* The lexer (src/parser/lexer.c) with the function that feeds it, a       *)
(* character of the statement at a time, from the client's text string     *)
(* (pproto_server_read_char).                                              *)
(*                                                                         *)
(* A step looks at the character read last and reads the next one, as the  *)
(* code does: lexer_next_ch is in every step, and the text comes into      *)
(* being as it is read.  A character is a string of TLA+; its bytes only   *)
(* count in the sizes of names and of string literals (Width).             *)
(***************************************************************************)
EXTENDS Integers, Sequences, SequencesExt, FiniteSetsExt

CONSTANTS
  Lower, Upper, \* letters, and ToUpper of the lower ones
  ToUpper,
  Digits,       \* the digits of the texts, as [character -> value]
  Specials,     \* the other characters of one byte that have a meaning
  Others,       \* characters of type OTHER
  Width,        \* bytes of a character that is not of one byte
  Reserved,     \* the reserved words
  MaxIdent,     \* LEXER_MAX_IDENTIFIER_LEN, 256 in the code
  MaxLiteral,   \* STRING_LITERAL_MAX_BUF_SZ, 1024 in the code
  Positions,    \* DECIMAL_POSITIONS, 40 in the code
  MaxExpRead,   \* the highest exponent that is read, 999 in the code
  MinExp,       \* DECIMAL_MIN_EXPONENT, -128 in the code
  MaxExp,       \* DECIMAL_MAX_EXPONENT, 127 in the code
  MaxInteger,   \* the largest sint64
  MaxText,      \* bound on the characters of a statement that are looked at
  MaxLexems     \* bound on its lexemes

ASSUME LexerAssumption ==
  /\ {" ", "\n", "_", "'", ".", "+", "-"} \subseteq Specials
  /\ {"e", "E"} \subseteq Lower \cup Upper
  /\ ToUpper \in [Lower -> Upper]
  /\ Reserved \subseteq Seq(Upper) \ {<<>>}
  /\ MaxInteger \in Nat /\ MaxInteger > 10
  /\ Digits \in [DOMAIN Digits -> 0 .. 9] /\ Digits["0"] = 0
  /\ Positions \in Nat
  /\ MinExp \in Int /\ MinExp <= 0 /\ MaxExp \in Int

VARIABLES
  text,         \* history: the characters delivered so far
  ch,           \* ls->ch, or Eos
  line, col,    \* of that character
  num_mode,     \* only integers are read
  pc,           \* the place in the code, "start" between two lexemes
  piece,        \* the characters of the lexeme that is being read
  value,        \* what was made of them
  at,           \* where it starts: [line, col] and its place in the text
  lexems,       \* history: what lexer_next returned
  why           \* the error that was reported

lexerVars == <<text, ch, line, col, num_mode, pc, piece, value, at, lexems, why>>

Letters == Lower \cup Upper
Blanks == {" ", "\n"} \cap Specials
Chars == Letters \cup DOMAIN Digits \cup Specials \cup Others
Eos == "end"
NoWhy == "none"

(* Each character is of one type, and the end of the text is of its own    *)
(* (lexer.c:15-24, 128-257).                                               *)
ASSUME CharTypesAssumption ==
  /\ Eos \notin Chars
  /\ Specials \cap (Letters \cup DOMAIN Digits \cup Others) = {}
  /\ Letters \cap DOMAIN Digits = {}
  /\ "0" \in DOMAIN Digits

(* sizes in bytes *)
Bytes(s) == FoldSeq(LAMBDA c, n : n + (IF c \in Others THEN Width ELSE 1), 0, s)

LexInit ==
  /\ text = <<>> /\ ch = Eos /\ line = 1 /\ col = 0 /\ num_mode = 0
  /\ pc = "reset" /\ piece = <<>> /\ value = <<>>
  /\ at = [line |-> 0, col |-> 0, first |-> 0]
  /\ lexems = <<>> /\ why = NoWhy

----------------------------------------------------------------------------
(* The character source, pproto_server_read_char.                          *)

(* The last character comes with the end of the string, and the end is     *)
(* what counts: whatever the character is, and whether it is one, it is    *)
(* not looked at.                                                          *)
LastCh(to) ==
  /\ text' = Append(text, Eos)
  /\ ch' = Eos
  /\ pc' = to
  /\ UNCHANGED <<line, col>>

(* A character before the last.                                            *)
OneChInLine(c, to) ==      \* mutant: a new line goes on in its column
  /\ Len(text) < MaxText
  /\ text' = Append(text, c)
  /\ ch' = c
  /\ line' = IF c = "\n" THEN line + 1 ELSE line
  /\ col' = col + 1
  /\ pc' = to
OneCh(c, to) ==
  /\ Len(text) < MaxText
  /\ text' = Append(text, c)
  /\ ch' = c
  /\ line' = IF c = "\n" THEN line + 1 ELSE line
  /\ col' = IF c = "\n" THEN 0 ELSE col + 1
  /\ pc' = to

(* Bytes that are no character before the last end the session.            *)
BadCh ==
  /\ pc' = "failed"
  /\ UNCHANGED <<text, ch, line, col>>

(* lexer_next_ch, after which the code is at to.                           *)
lexer_next_ch(to) ==
  \/ LastCh(to)
  \/ \E c \in Chars : OneCh(c, to)
  \/ BadCh

(* The next statement of the session: its text is another string.          *)
NextStatement ==
  /\ pc \in {"done", "error"}
  /\ text' = <<>> /\ piece' = <<>> /\ value' = <<>>
  /\ lexems' = <<>> /\ why' = NoWhy
  /\ pc' = "reset"
  /\ UNCHANGED <<ch, line, col, num_mode, at>>

lexer_reset ==
  /\ pc = "reset"
  /\ line' = 1 /\ col' = 0 /\ num_mode' = 0
  /\ pc' = "first"
  /\ UNCHANGED <<text, ch, piece, value, at, lexems, why>>

(* An empty string has ended already when it is asked for a character.     *)
FirstCh ==
  /\ pc = "first"
  /\ \/ ch' = Eos /\ pc' = "start" /\ UNCHANGED <<text, line, col>>
     \/ lexer_next_ch("start")
  /\ UNCHANGED <<num_mode, piece, value, at, lexems, why>>

----------------------------------------------------------------------------
(* What lexer_next returns: a lexeme of this type, or 1 after an error.    *)
Lexem(type) == [type |-> type, piece |-> piece, value |-> value, at |-> at]

Return(type) ==
  /\ lexems' = Append(lexems, Lexem(type))
  /\ pc' = IF type = "eos" THEN "done" ELSE "start"
  /\ piece' = <<>> /\ value' = <<>>
  /\ UNCHANGED <<text, ch, line, col, num_mode, at, why>>

lexer_report_error(reason) ==
  /\ pc' = "error"
  /\ why' = reason
  /\ UNCHANGED <<text, ch, line, col, num_mode, piece, value, at, lexems>>

(* The current character becomes a part of the lexeme, of which v is made  *)
(* now, and the next one is read.                                          *)
Take(v, to) ==
  /\ piece' = Append(piece, ch)
  /\ value' = v
  /\ lexer_next_ch(to)
  /\ UNCHANGED <<num_mode, at, lexems, why>>

----------------------------------------------------------------------------
(* lexer_next.                                                             *)
SkipBlank ==
  /\ pc = "start"
  /\ ch \in Blanks
  /\ lexer_next_ch("start")
  /\ UNCHANGED <<num_mode, piece, value, at, lexems, why>>

(* The parser asks for integers only, or for any number again.             *)
lexer_num_mode_integer ==
  /\ pc = "start"
  /\ lexems # <<>>
  /\ num_mode' = 1 - num_mode
  /\ UNCHANGED <<text, ch, line, col, pc, piece, value, at, lexems, why>>

(* What has been read of a number: the mantissa and how many digits it has *)
(* (n), how many of them behind the point (e), the exponent that is        *)
(* written and its sign.                                                   *)
NoNumber == [m |-> 0, n |-> 0, e |-> 0, d |-> 0, sign |-> 0]

(* The first character decides what is read.                               *)
Begin(state, v) ==
  /\ pc = "start"
  /\ ch = Eos \/ Len(lexems) < MaxLexems
  /\ at' = [line |-> line, col |-> col, first |-> Len(text)]
  /\ pc' = state
  /\ value' = v
  /\ UNCHANGED <<text, ch, line, col, num_mode, piece, lexems, why>>

InName == Letters \cup DOMAIN Digits \cup Others \cup {"_"}

lexer_next ==
  \/ ch \in InName \ DOMAIN Digits /\ Begin("identifier", <<>>)
  \/ ch = "'" /\ Begin("quote", <<>>)
  \/ ch \in DOMAIN Digits /\ Begin("zeros", NoNumber)
  \/ ch \in Specials \ (Blanks \cup {"_", "'"}) /\ Begin("token", <<>>)
  \/ ch = Eos /\ Begin("eos", <<>>)

EndOfText == pc = "eos" /\ Return("eos")
Token == pc = "token" /\ Take(<<>>, "token_end")
TokenEnd == pc = "token_end" /\ Return("token")

----------------------------------------------------------------------------
(* lexer_next_identifier, with the size of the name in bytes, and          *)
(* lexer_match_rword, for names of letters only.                           *)
NameFits == Bytes(Append(piece, ch)) <= MaxIdent

Identifier ==
  /\ pc = "identifier"
  /\ ch \in InName
  /\ NameFits
  /\ Take(<<>>, "identifier")

NameTooLong ==
  /\ pc = "identifier"
  /\ ch \in InName
  /\ ~ NameFits
  /\ lexer_report_error("identifier")

UpperCase(s) == [i \in DOMAIN s |-> IF s[i] \in Lower THEN ToUpper[s[i]] ELSE s[i]]
IsReserved(s) == UpperCase(s) \in Reserved

IdentifierEnd ==
  /\ pc = "identifier"
  /\ ch \notin InName
  /\ Return(IF IsReserved(piece) THEN "reserved" ELSE "identifier")

----------------------------------------------------------------------------
(* lexer_next_num_literal.                                                 *)
AtDigit == ch \in DOMAIN Digits

LeadingZero ==
  /\ pc = "zeros"
  /\ \/ ch = "0" /\ Take(value, "zeros")
     \/ /\ ch # "0"
        /\ pc' = "digits"
        /\ UNCHANGED <<text, ch, line, col, num_mode, piece, value, at, lexems, why>>

WithoutPlaces(places) ==   \* mutant: digits behind the point are not counted
  [m |-> 10 * value.m + Digits[ch], n |-> value.n + 1, e |-> value.e,
   d |-> value.d, sign |-> value.sign]
WithDigit(places) ==
  [m |-> 10 * value.m + Digits[ch], n |-> value.n + 1, e |-> value.e + places,
   d |-> value.d, sign |-> value.sign]

(* A digit may be no more than the mantissa, or the integer, holds.        *)
IntegerFullAfter == value.m > MaxInteger \div 10    \* mutant: no room for a digit
IntegerFull == value.m > (MaxInteger - 10) \div 10
MantissaFull == value.n >= Positions
Full == IF num_mode = 1 THEN IntegerFull ELSE MantissaFull

WholeDigit ==
  /\ pc = "digits"
  /\ AtDigit
  /\ \/ ~ Full /\ Take(WithDigit(0), "digits")
     \/ Full /\ lexer_report_error(IF num_mode = 1 THEN "integer" ELSE "mantissa")

Point == pc = "digits" /\ num_mode = 0 /\ ch = "." /\ Take(value, "fraction")

FractionDigit ==
  /\ pc = "fraction"
  /\ AtDigit
  /\ \/ ~ MantissaFull /\ Take(WithDigit(1), "fraction")
     \/ MantissaFull /\ lexer_report_error("mantissa")

(* An exponent has to have a sign.                                         *)
Exponent ==
  /\ pc \in {"digits", "fraction"}
  /\ num_mode = 0
  /\ ch \in {"e", "E"}
  /\ Take(value, "sign")

Sign ==
  /\ pc = "sign"
  /\ \/ ch = "+" /\ Take([value EXCEPT !.sign = 1], "exponent")
     \/ ch = "-" /\ Take([value EXCEPT !.sign = -1], "exponent")
     \/ ch \notin {"+", "-"} /\ lexer_report_error("sign")

ExponentDigit ==
  /\ pc = "exponent"
  /\ AtDigit
  /\ LET d == 10 * value.d + Digits[ch] IN
       IF d > MaxExpRead THEN lexer_report_error("exponent")
       ELSE Take([value EXCEPT !.d = d], "exponent")

(* The exponent of the number: places behind the point count.              *)
TotalExponent == value.sign * value.d - value.e
InRange == TotalExponent \in MinExp .. MaxExp

NumberEnd ==
  /\ \/ pc = "digits" /\ ~ AtDigit /\ (num_mode = 1 \/ ch \notin {".", "e", "E"})
     \/ pc = "fraction" /\ ~ AtDigit /\ ch \notin {"e", "E"}
     \/ pc = "exponent" /\ ~ AtDigit
  /\ IF pc # "exponent" \/ InRange THEN Return("number")
     ELSE lexer_report_error("exponent")

----------------------------------------------------------------------------
(* lexer_next_str_literal; value is the content.                           *)
LiteralFits == Bytes(Append(value, ch)) <= MaxLiteral

Quote == pc = "quote" /\ Take(<<>>, "inside")

QuoteKept == pc = "inside" /\ ch = "'" /\ Take(Append(value, ch), "closing")  \* mutant
InsideQuote == pc = "inside" /\ ch = "'" /\ Take(value, "closing")

(* A character of the content, which a doubled quote is too.               *)
Content ==
  /\ \/ pc = "inside" /\ ch \notin {"'", Eos}
     \/ pc = "closing" /\ ch = "'"
  /\ \/ LiteralFits /\ Take(Append(value, ch), "inside")
     \/ ~ LiteralFits /\ lexer_report_error("literal")

Unclosed == pc = "inside" /\ ch = Eos /\ lexer_report_error("quote")

LiteralEnd == pc = "closing" /\ ch # "'" /\ Return("literal")

----------------------------------------------------------------------------
LexNext ==
  \/ NextStatement \/ lexer_reset \/ FirstCh \/ SkipBlank \/ lexer_num_mode_integer \/ lexer_next
  \/ EndOfText \/ Token \/ TokenEnd
  \/ Identifier \/ NameTooLong \/ IdentifierEnd
  \/ LeadingZero \/ WholeDigit \/ Point \/ FractionDigit \/ Exponent \/ Sign
  \/ ExponentDigit \/ NumberEnd
  \/ Quote \/ InsideQuote \/ Content \/ Unclosed \/ LiteralEnd

LexSpec == LexInit /\ [][LexNext]_lexerVars
============================================================================
