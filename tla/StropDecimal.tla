---------------------------- MODULE StropDecimal ----------------------------
(***************************************************************************)
(* Decimal numbers as text (strop_fmt_decimal and strop_fmt_decimal_pse of *)
(* src/common/strop.c).                                                    *)
(***************************************************************************)
EXTENDS DecimalProps, Strop

CONSTANTS
  Numbers,       \* numbers that are printed
  Formats,       \* sequences of "d", "s" and "e", or anything else
  Columns,       \* [precision, scale] of columns
  NumberBufSize  \* bytes left in the buffer

(* Precision and scale are bytes, an exponent is one with a sign, a count  *)
(* of digits has 16 bits.                                                  *)
ASSUME StropDecimalAssumption ==
  /\ NumberBufSize \in Nat \ {0}
  /\ \A f \in Formats : f \in Seq(STRING) /\ Len(f) < 256
  /\ \A c \in Columns : c.precision \in 0 .. 255 /\ c.scale \in 0 .. 255
  /\ -128 <= MinExponent /\ MaxExponent <= 127 /\ Positions < 2 ^ 15
  /\ \A d \in Numbers : d.m \in [Limbs -> 0 .. Base - 1]

VARIABLES
  number,        \* what is printed, or <<>> before
  asked_for,     \* [n, m, exp] of the digits: before and behind the separator
  printed,       \* the characters added to the buffer
  print_ret      \* 0 or 1, or -1 before
stropDecimalVars == <<number, asked_for, printed, print_ret>>

----------------------------------------------------------------------------
(* d's, then a separator and more d's or none, then an exponent or none.   *)
ValidFormat(f) ==
  \A k \in DOMAIN f :
    \/ f[k] = "d"
    \/ f[k] = "s" /\ \A j \in DOMAIN f : f[j] = "s" => j = k
    \/ f[k] = "e" /\ k = Len(f)

Precision(f) == Cardinality({k \in DOMAIN f : f[k] = "d"})
Scale(f) == Cardinality({k \in DOMAIN f : f[k] = "d" /\ \E j \in 1 .. k : f[j] = "s"})

(* The digits are read from the highest one of the highest limb by the     *)
(* count of digits, k of them before; behind the last one come zeros.      *)
NthDigit(d, k) ==
  LET high  == (d.n - 1) \div Log10
      place == high * Log10 + Max({DigitsOf(d.m[high]), 1}) - 1 - k
  IN IF place < 0 THEN 0 ELSE (d.m[place \div Log10] \div 10 ^ (place % Log10)) % 10
DigitsFrom(d, first, count) == [k \in 1 .. count |-> Figure(NthDigit(d, first + k - 1))]

(* A number below 1 has zeros behind the separator, as far as the scale.   *)
NoZeros(whole, m) == 0        \* mutant
ZerosBehind(whole, m) == IF whole >= 0 THEN 0 ELSE Min({-whole, m})

(* whole digits, the separator and m more, the first of them leading 0s.   *)
Digits(d, whole, m) ==
  LET zeros == ZerosBehind(whole, m) IN
  DigitsFrom(d, 0, Max({whole, 0}))
  \o (IF m = 0 THEN <<>>
      ELSE <<".">> \o Repeat("0", zeros) \o DigitsFrom(d, Max({whole, 0}), m - zeros))

Exponent(e) == <<"e", IF e >= 0 THEN "+" ELSE "-">> \o strop_fmt_uint64(Magnitude(e))

ZeroText(n, m, exp) ==
  (IF n > 0 THEN <<"0">> ELSE <<>>)
  \o (IF m > 0 THEN <<".">> \o Repeat("0", m) ELSE <<>>)
  \o (IF exp THEN <<"e", "+", "0">> ELSE <<>>)

DecimalText(n, m, exp, d) ==
  LET sign == IF d.sign = -1 THEN <<"-">> ELSE <<" ">>
      lead == IF n > 0 /\ Reach(d) <= 0 THEN <<"0">> ELSE <<>>
  IN IF d.n = 0 THEN ZeroText(n, m, exp)
     ELSE IF exp THEN sign \o Digits(d, n, m) \o Exponent(Reach(d) - n)
     ELSE IF n >= Reach(d) THEN sign \o lead \o Digits(d, Reach(d), m)
     ELSE <<"?">>

----------------------------------------------------------------------------
StropDecimalInit ==
  number = <<>> /\ asked_for = [n |-> 0, m |-> 0, exp |-> FALSE] /\ printed = <<>> /\ print_ret = -1

(* The buffer is left as it was if the text does not fit.                  *)
strop_fmt_decimal_pse(precision, scale, exp, d) ==
  LET out  == DecimalText(precision - scale, scale, exp, d)
      fits == Len(out) <= NumberBufSize
  IN /\ number' = d
     /\ asked_for' = [n |-> precision - scale, m |-> scale, exp |-> exp]
     /\ printed' = IF fits THEN out ELSE <<>>
     /\ print_ret' = IF fits THEN 0 ELSE 1

strop_fmt_decimal(f, d) ==
  \/ /\ ValidFormat(f)
     /\ strop_fmt_decimal_pse(Precision(f), Scale(f), f # <<>> /\ f[Len(f)] = "e", d)
  \/ /\ ~ValidFormat(f)
     /\ number' = d /\ print_ret' = 1
     /\ UNCHANGED <<asked_for, printed>>

(* A template, or what psql prints: the precision and scale of the column, *)
(* 1 and 6 with an exponent where it has none (client/main.c:258-266).     *)
StropDecimalNext ==
  /\ print_ret = -1
  /\ \E d \in Numbers :
       \/ \E f \in Formats : strop_fmt_decimal(f, d)
       \/ \E c \in Columns :
            IF c.precision > 0 THEN strop_fmt_decimal_pse(c.precision, c.scale, FALSE, d)
            ELSE strop_fmt_decimal_pse(1, 6, TRUE, d)

StropDecimalSpec == StropDecimalInit /\ [][StropDecimalNext]_stropDecimalVars

----------------------------------------------------------------------------
(* The text read as a number: all its digits, how many of them stand       *)
(* behind the separator, and its exponent.                                 *)
Find(c) == Min({k \in DOMAIN printed : printed[k] = c} \cup {Len(printed) + 1})
ReadDigits(first, last) ==
  LET read[k \in first - 1 .. last] ==
        IF k < first THEN 0
        ELSE IF printed[k] \in {".", "-", " "} THEN read[k - 1]
        ELSE 10 * read[k - 1] + FigureValue(printed[k])
  IN read[last]
ReadExponent ==
  IF Find("e") > Len(printed) THEN 0
  ELSE ReadDigits(Find("e") + 2, Len(printed)) * (IF printed[Find("e") + 1] = "-" THEN -1 ELSE 1)

(* What is printed is the number, cut off behind the digits asked for,     *)
(* with its sign; it is not printed only when more digits stand before the *)
(* separator than there is room for (strop.c:426-600, strop.h:34-42).      *)
NumberAsPrinted ==
  LET last == ReadExponent - asked_for.m     \* weight of the last digit
      unit == Min({last, number.e})
  IN
  print_ret = 0 /\ Normal(number) /\ Reach(number) - unit <= MaxDigits =>
    LET worth == Tens(ReadDigits(1, Find("e") - 1), last - unit)
        rest  == Tens(Whole(number), number.e - unit) - worth
    IN IF printed = <<"?">> THEN ~asked_for.exp /\ asked_for.n < Reach(number)
       ELSE /\ rest \in 0 .. Ten(last - unit) - 1
            /\ worth > 0 => (printed[1] = "-" <=> number.sign = -1)
=============================================================================
