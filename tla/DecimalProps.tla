---------------------------- MODULE DecimalProps ----------------------------
(* What the results of decimal arithmetic are worth.                       *)
EXTENDS Decimal, Numerals

CONSTANT MaxDigits     \* as many as the integers have that the checker computes with

Magnitude(i) == IF i < 0 THEN -i ELSE i
Whole(d) == Linear(0, Base, [k \in 1 .. Parts |-> d.m[Parts - k]], Parts)

(* The operands and the result as multiples of the least of their last     *)
(* places, where they are small enough for the integers of the checker.    *)
LastPlace == Min({d1.e, d2.e, d3.e})
Worth(d) == Tens(d.sign * Whole(d), d.e - LastPlace)
Small == \A d \in {d1, d2, d3} : Reach(d) - LastPlace <= MaxDigits

Succeeded(name) == op = name /\ ret = "ok"

Near(x, y, place) == Magnitude(x - y) < Ten(Max({place - LastPlace, 0}))

(* A sum is exact if its digits, from the highest of the operands', fit    *)
(* into a mantissa, and else less than one unit of the last place off that *)
(* a mantissa with a carry has (decimal.c:463-590).  A difference is, too, *)
(* but for its sign, which is the sign of the larger operand when they     *)
(* have changed places.                                                    *)
SumsPrecise ==
  LET place == Max({Reach(d1), Reach(d2)}) + 1 - Positions IN
  /\ Succeeded("add") /\ Small => Near(Worth(d3), Worth(d1) + Worth(d2), place)
  /\ Succeeded("sub") /\ Small =>
       \/ Near(Worth(d3), Worth(d1) - Worth(d2), place)
       \/ Near(-Worth(d3), Worth(d1) - Worth(d2), place)

(* A product whose digits fit into a mantissa is exact (decimal.c:196-268).*)
ProductExact ==
  Succeeded("mul") /\ d1.n + d2.n <= MaxDigits =>
    LET product == Whole(d1) * Whole(d2) IN
    product < Ten(Positions) =>
      /\ Whole(d3) = product
      /\ product # 0 => d3.sign = d1.sign * d2.sign /\ d3.e = d1.e + d2.e

(* The count of digits is right, and every limb is one.                    *)
Normal(d) ==
  /\ \A i \in Limbs : d.m[i] \in 0 .. Base - 1
  /\ d.n = decimal_num_digits(d.m)
  /\ d.e \in MinExponent .. MaxExponent

(* Divisions that keep within the buffers: the divisor has at most one     *)
(* limb more than the dividend, and does not fill the mantissa unscaled.   *)
Divides ==
  /\ Normal(d1) /\ Normal(d2)
  /\ HighLimb(d2) <= HighLimb(d1) + 1
  /\ HighLimb(d2) < Parts - 1 \/ 2 * d2.m[Parts - 1] < Base

(* The quotient of two integers with shift more digits.                    *)
Quotient(a, b, shift) ==
  LET rest[k \in 0 .. Max({shift, 0})] == IF k = 0 THEN a % b ELSE (10 * rest[k - 1]) % b
      q[k \in 0 .. Max({shift, 0})] ==
        IF k = 0 THEN a \div b ELSE 10 * q[k - 1] + (10 * rest[k - 1]) \div b
  IN IF shift >= 0 THEN q[shift] ELSE q[0] \div 10 ^ (-shift)

(* A quotient is the exact one, cut off behind a full mantissa, for one    *)
(* limb and for several, with every correction of the limbs that are tried *)
(* (decimal.c:272-459).                                                    *)
QuotientTruncated ==
  Succeeded("div") /\ d1.n > 0 /\ Divides =>
    /\ Whole(d3) = Quotient(Whole(d1), Whole(d2), d1.e - d2.e - d3.e)
    /\ d3.m[Parts - 1] > 0
    /\ d3.sign = d1.sign * d2.sign

(* What multiplication and division promise together.                      *)
ProductAndQuotient == ProductExact /\ QuotientTruncated

(* Results can be operands again: after any operations in a row a mantissa *)
(* has as many digits as it counts, unless a product did not fit into it.  *)
StaysNormal ==
  /\ Normal(d1) /\ Normal(d2)
  /\ \/ Succeeded("add") \/ Succeeded("sub")
     \/ Succeeded("div") /\ Divides
     \/ Succeeded("mul") /\ d1.n + d2.n <= Positions
  => Normal(d3)

(* decimal.h:42: "return positive if d1 > d2, negative if d1 < d2, 0       *)
(* otherwise".                                                             *)
CmpAsDocumented ==
  Succeeded("cmp") /\ Small /\ Normal(d1) /\ Normal(d2) =>
    LET difference == Worth(d1) - Worth(d2) IN
    /\ difference > 0 => order > 0
    /\ difference < 0 => order < 0
    /\ difference = 0 => order = 0
============================================================================
