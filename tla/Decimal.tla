------------------------------ MODULE Decimal ------------------------------
(***************************************************************************)
(* The decimal numbers (src/common/decimal.c): ten limbs of four digits in *)
(* the code, Parts limbs of Log10 digits here, the least significant one   *)
(* first, as they are used by expressions: operands are literals, or the   *)
(* result of an operation is an operand of the next (expression.c:60-146). *)
(***************************************************************************)
EXTENDS Integers, FiniteSetsExt

CONSTANTS
  Parts,          \* DECIMAL_PARTS
  Log10,          \* DECIMAL_BASE_LOG10
  MinExponent, MaxExponent,
  Literals,       \* operands: [sign, e, n, m] with m : 0 .. Parts - 1 -> limb
  Stale,          \* what a limb that was never written may hold
  MaxReuse        \* bound on operations in a row

(* A limb is a number of 16 bits.                                          *)
ASSUME DecimalAssumption ==
  /\ Parts \in Nat \ {0} /\ Log10 \in 1 .. 4
  /\ MinExponent \in Int /\ MaxExponent \in Int /\ 0 \in MinExponent .. MaxExponent

Base == 10 ^ Log10
Positions == Parts * Log10
Limbs == 0 .. Parts - 1
NoLimbs == [i \in Limbs |-> 0]
Zero == [sign |-> 1, e |-> 0, n |-> 0, m |-> NoLimbs]

VARIABLES
  d1, d2,         \* the operands
  d3,             \* the result
  op,             \* the operation that gave it, or "none"
  ret,            \* "ok", "error", or "crash" if it does not return
  order,          \* what decimal_cmp returned
  reuse           \* operations so far
decimalVars == <<d1, d2, d3, op, ret, order, reuse>>

----------------------------------------------------------------------------
decimal_abs_add(a, b) ==
  LET c[i \in 0 .. Parts] ==
        IF i = 0 THEN 0 ELSE (a[i - 1] + b[i - 1] + c[i - 1]) \div Base
  IN [m |-> [i \in Limbs |-> (a[i] + b[i] + c[i]) % Base], carry |-> c[Parts]]

decimal_abs_sub(a, b) ==
  LET c[i \in 0 .. Parts] ==
        IF i = 0 THEN 0 ELSE IF a[i - 1] < b[i - 1] + c[i - 1] THEN 1 ELSE 0
  IN [i \in Limbs |-> (a[i] - b[i] - c[i]) % Base]

decimal_abs_cmp(a, b) ==
  LET differ == {i \in Limbs : a[i] # b[i]}
  IN IF differ = {} THEN 0 ELSE a[Max(differ)] - b[Max(differ)]

(* By n digits; limbs outside of the mantissa are 0.                       *)
Limb(m, i) == IF i \in Limbs THEN m[i] ELSE 0
decimal_shift_right(m, n) ==
  LET s == 10 ^ (n % Log10)
      k == n \div Log10
  IN [i \in Limbs |-> (Limb(m, i + k + 1) % s) * (Base \div s) + Limb(m, i + k) \div s]
decimal_shift_left(m, n) ==
  LET s == 10 ^ (n % Log10)
      k == n \div Log10
  IN [i \in Limbs |-> (Limb(m, i - k) % (Base \div s)) * s + Limb(m, i - k - 1) \div (Base \div s)]

DigitsOf(v) == Cardinality({k \in 0 .. 4 : v >= 10 ^ k})     \* of 16 bits
decimal_num_digits(m) ==
  LET taken == {i \in Limbs : m[i] # 0}
  IN IF taken = {} THEN 0 ELSE Max(taken) * Log10 + DigitsOf(m[Max(taken)])

(* A number with limbs in range that counts no less digits than it has,    *)
(* as literals do: a zero in front of the others may count.                *)
Sized(d) ==
  /\ d.m \in [Limbs -> 0 .. Base - 1]
  /\ d.n \in Nat /\ decimal_num_digits(d.m) <= d.n /\ d.n <= Positions
  /\ d.sign \in {1, -1}
  /\ d.e \in MinExponent .. MaxExponent
ASSUME LiteralsAssumption == \A d \in Literals : Sized(d)

Error(old) == [ret |-> "error", d |-> old]
Crash(old) == [ret |-> "crash", d |-> old]
Number(sign, e, n, m) ==
  [ret |-> "ok", d |-> [sign |-> sign, e |-> e, n |-> n, m |-> m]]

----------------------------------------------------------------------------
(* decimal_add_sub.  n1 is the operand that reaches higher.                *)
Reach(d) == d.e + d.n

Unaligned(n1, n2) == [s1 |-> n1.m, s2 |-> n2.m, e |-> n1.e]       \* mutant
Aligned(n1, n2) ==
  LET shift == n1.e - n2.e
      free  == Positions - n1.n
  IN IF shift > free
     THEN [s1 |-> decimal_shift_left(n1.m, free), s2 |-> decimal_shift_right(n2.m, shift - free),
           e |-> n1.e - free]
     ELSE IF shift > 0 THEN [s1 |-> decimal_shift_left(n1.m, shift), s2 |-> n2.m, e |-> n1.e - shift]
     ELSE [s1 |-> n1.m, s2 |-> decimal_shift_left(n2.m, -shift), e |-> n1.e]

TooSmall(n1, n2) ==
  LET shift == n1.e - n2.e
      free  == Positions - n1.n
  IN shift > free /\ shift - free > n2.n

Subtracted(n1, n2, a) ==
  LET cmp == decimal_abs_cmp(a.s1, a.s2)
      m   == IF cmp > 0 THEN decimal_abs_sub(a.s1, a.s2) ELSE decimal_abs_sub(a.s2, a.s1)
  IN IF cmp = 0 THEN Number(1, 0, 0, NoLimbs)
     ELSE Number(IF cmp > 0 THEN n1.sign ELSE n2.sign, a.e, decimal_num_digits(m), m)

CarryForgotten(a1, a, old) ==       \* mutant: the carry is not put in front
  LET s == decimal_abs_add(a.s1, a.s2)
  IN Number(a1.sign, a.e + s.carry,
            IF s.carry = 0 THEN decimal_num_digits(s.m) ELSE Positions,
            decimal_shift_right(s.m, s.carry))
Added(a1, a, old) ==
  LET s == decimal_abs_add(a.s1, a.s2)
      m == decimal_shift_right(s.m, 1)
  IN IF s.carry = 0 THEN Number(a1.sign, a.e, decimal_num_digits(s.m), s.m)
     ELSE IF a.e = MaxExponent THEN Error(old)
     ELSE Number(a1.sign, a.e + 1, Positions, [m EXCEPT ![Parts - 1] = @ + Base \div 10])

decimal_add_sub(a, b, plus, old) ==
  LET swapped == Reach(a) < Reach(b)
      n1 == IF swapped THEN b ELSE a
      n2 == IF swapped THEN a ELSE b
  IN IF a.n = 0
     THEN Number(IF plus THEN b.sign ELSE -b.sign, b.e, b.n, b.m)
     ELSE IF b.n = 0 THEN [ret |-> "ok", d |-> a]
     ELSE IF TooSmall(n1, n2) THEN [ret |-> "ok", d |-> n1]
     ELSE IF (n1.sign # n2.sign) = plus THEN Subtracted(n1, n2, Aligned(n1, n2))
     ELSE Added(a, Aligned(n1, n2), old)

----------------------------------------------------------------------------
(* decimal_mul: the product in 2 * Parts limbs, a row for each limb of a.  *)
AddRow(m3, x, b, i) ==
  LET cell[j \in Limbs] == x * b[j] + m3[i + j] + (IF j = 0 THEN 0 ELSE cell[j - 1] \div Base)
  IN [k \in DOMAIN m3 |-> IF k - i \in Limbs THEN cell[k - i] % Base
                          ELSE IF k = i + Parts THEN m3[k] + cell[Parts - 1] \div Base
                          ELSE m3[k]]

Product(a, b) ==
  LET row[i \in 0 .. Parts] ==
        IF i = 0 THEN [k \in 0 .. 2 * Parts - 1 |-> 0]
        ELSE IF a[i - 1] = 0 THEN row[i - 1] ELSE AddRow(row[i - 1], a[i - 1], b, i - 1)
  IN row[Parts]

From(m3, first) == [i \in Limbs |-> m3[first + i]]

(* The digits that are kept of a product of n > Positions digits.          *)
Truncated(m3, n) ==
  LET nd    == n % Log10
      first == (n + Log10 - 1) \div Log10 - Parts
  IN [decimal_shift_left(From(m3, first), Log10 - nd)
        EXCEPT ![0] = @ + m3[first - 1] \div 10 ^ (Log10 - nd)]

decimal_mul(a, b, old) ==
  LET m3   == Product(a.m, b.m)
      high == decimal_num_digits(From(m3, Parts))
      n    == IF high > 0 THEN high + Positions ELSE decimal_num_digits(From(m3, 0))
      e    == a.e + b.e + (IF n > Positions THEN n - Positions ELSE 0)
      sign == IF a.sign = b.sign \/ a.n = 0 THEN 1 ELSE -1
  IN IF e \notin MinExponent .. MaxExponent THEN Error(old)
     ELSE IF n > Positions THEN Number(sign, e, Positions, Truncated(m3, n))
     ELSE Number(sign, e, n, From(m3, 0))

----------------------------------------------------------------------------
(* decimal_div: m and n are the highest limbs of the operands, by their    *)
(* count of digits.  A quotient is a mantissa and p, 1 less the number of  *)
(* limbs in front that were 0 and left out.                                *)
HighLimb(d) == (d.n - 1) \div Log10

(* The divisor has one limb.                                               *)
ShortQuotient(a, d) ==
  LET m == HighLimb(a)
      p == IF a.m[m] < d THEN 0 ELSE 1
      Dividend(k, rest) == rest * Base + Limb(a.m, m - k + p)
      rh[k \in 0 .. Parts] ==
        IF k = 0 THEN (IF p = 0 THEN a.m[m] ELSE 0) ELSE Dividend(k, rh[k - 1]) % d
  IN [p |-> p, ok |-> TRUE,
      m |-> [i \in Limbs |-> Dividend(Parts - i, rh[Parts - i - 1]) \div d]]

decimal_mul_by_digit(m, d) ==
  LET cell[i \in Limbs] == m[i] * d + (IF i = 0 THEN 0 ELSE cell[i - 1] \div Base)
  IN [i \in -(Parts + 2) .. Parts |->
        IF i \in Limbs THEN cell[i] % Base ELSE IF i < 0 THEN 0 ELSE cell[Parts - 1] \div Base]

(* The next limb of the quotient, tried from two limbs of the dividend and *)
(* one of the divisor.                                                     *)
Tried(n1, n2, n, j) ==
  LET top == n1[j + n + 1] * Base + n1[j + n]
      TooLarge(q, r) == q >= Base \/ q * n2[n - 1] > Base * r + n1[j + n - 1]
      q0 == top \div n2[n]
      r0 == top % n2[n]
  IN IF ~ TooLarge(q0, r0) THEN q0
     ELSE IF r0 + n2[n] < Base /\ TooLarge(q0 - 1, r0 + n2[n]) THEN q0 - 2 ELSE q0 - 1

RemainderBelow0(n1, n2, n, j, qh) ==  \* mutant: a limb that is too large is kept
  LET k[l \in 0 .. n + 1] == n2[l] * qh + (IF l = 0 THEN 0 ELSE k[l - 1] \div Base)
      c[l \in 0 .. n + 1] ==
        IF l = 0 THEN 0 ELSE IF n1[j + l - 1] < (k[l - 1] % Base) + c[l - 1] THEN 1 ELSE 0
  IN [qh |-> qh, ok |-> TRUE,
      n1 |-> [i \in DOMAIN n1 |-> IF i - j \in 0 .. n + 1
                                  THEN (n1[i] - (k[i - j] % Base) - c[i - j]) % Base ELSE n1[i]]]

(* The dividend less qh times the divisor, or, where that is less than     *)
(* nothing, less qh - 1 times, which is asserted to be enough.             *)
Remainder(n1, n2, n, j, qh) ==
  LET k[l \in 0 .. n + 1] == n2[l] * qh + (IF l = 0 THEN 0 ELSE k[l - 1] \div Base)
      c[l \in 0 .. n + 2] ==
        IF l = 0 THEN 0
        ELSE IF n1[j + l - 1] < (k[l - 1] % Base) + c[l - 1] THEN 1 ELSE 0
      sub == [i \in DOMAIN n1 |-> IF i - j \in 0 .. n + 1
                                  THEN (n1[i] - (k[i - j] % Base) - c[i - j]) % Base ELSE n1[i]]
      b[l \in 0 .. n + 2] ==
        IF l = 0 THEN 0 ELSE (sub[j + l - 1] + n2[l - 1] + b[l - 1]) \div Base
  IN IF c[n + 2] = 0 THEN [qh |-> qh, n1 |-> sub, ok |-> TRUE]
     ELSE [qh |-> qh - 1, ok |-> b[n + 2] > 0,
           n1 |-> [i \in DOMAIN n1 |-> IF i - j \in 0 .. n + 1
                                       THEN (sub[i] + n2[i - j] + b[i - j]) % Base ELSE n1[i]]]

(* The divisor has several limbs.  The dividend has Parts + 2 limbs behind *)
(* it; when they are used up, what is left of the mantissa stays as it was *)
(* in d3.  The limb above a divisor that is not multiplied was not written *)
(* either; where it is multiplied its 0 is written one limb behind the     *)
(* buffer (decimal.c:98, 348), and is taken to hit nothing that is in use. *)
LongQuotient(a, b, stale) ==
  LET m  == HighLimb(a)
      n  == HighLimb(b)
      d  == Base \div (b.m[n] + 1)
      n2 == [decimal_mul_by_digit(b.m, d) EXCEPT ![Parts] = IF d = 1 THEN stale ELSE @]
      Step(s, j) ==
        LET r == Remainder(s.n1, n2, n, j, Tried(s.n1, n2, n, j)) IN
        IF s.i < Parts - 1 \/ r.qh > 0
        THEN [n1 |-> r.n1, i |-> s.i - 1, p |-> s.p, m |-> [s.m EXCEPT ![s.i] = r.qh],
              ok |-> s.ok /\ r.ok]
        ELSE [s EXCEPT !.n1 = r.n1, !.p = @ - 1, !.ok = @ /\ r.ok]
      steps[k \in 0 .. m - n + Parts + 2] ==
        IF k = 0 THEN [n1 |-> decimal_mul_by_digit(a.m, d), i |-> Parts - 1, p |-> 1,
                       m |-> [i \in Limbs |-> stale], ok |-> TRUE]
        ELSE IF steps[k - 1].i < 0 THEN steps[k - 1]
        ELSE Step(steps[k - 1], m - n - k + 1)
      last == steps[m - n + Parts + 2]
  IN [p |-> last.p, m |-> last.m, ok |-> last.ok]

(* The divisor a limb is tried with: if it is 0, so is a divisor in C.     *)
Leading(b) ==
  LET n == HighLimb(b) IN
  IF n = 0 THEN b.m[0] ELSE decimal_mul_by_digit(b.m, Base \div (b.m[n] + 1))[n]

decimal_div(a, b, stale, old) ==
  LET q == IF HighLimb(b) = 0 THEN ShortQuotient(a, b.m[0]) ELSE LongQuotient(a, b, stale)
      e == a.e - b.e - (Parts - HighLimb(a) + HighLimb(b) - q.p) * Log10
  IN IF b.n = 0 THEN Error(old)
     ELSE IF a.n = 0 THEN Number(1, 0, 0, NoLimbs)
     ELSE IF Leading(b) = 0 \/ ~ q.ok THEN Crash(old)
     ELSE IF e \notin MinExponent .. MaxExponent THEN Error(old)
     ELSE Number(IF a.sign = b.sign THEN 1 ELSE -1, e,
                 Positions - Log10 + DigitsOf(q.m[Parts - 1]), q.m)

----------------------------------------------------------------------------
(* decimal_cmp; digits are compared from a power of ten that depends on    *)
(* the number of limbs, and are read modulo 10.                            *)
DigitAt(d, k) ==
  (d.m[(d.n - 1 - k) \div Log10] \div 10 ^ ((Log10 - 1 - d.n \div Log10 - k) % Log10)) % 10

decimal_abs_cmp_with_shift(a, b) ==
  LET differ == {k \in 0 .. Min({a.n, b.n}) - 1 : DigitAt(a, k) # DigitAt(b, k)}
  IN IF differ = {} THEN 0 ELSE DigitAt(a, Min(differ)) - DigitAt(b, Min(differ))

Divides0(d) == d.n \div Log10 >= Log10

decimal_cmp(a, b) ==
  LET diff == Reach(a) - Reach(b)
  IN IF a.sign # b.sign THEN a.sign
     ELSE IF diff # 0 THEN (IF diff > 0 THEN 1 ELSE -1)
     ELSE IF a.n # b.n THEN decimal_abs_cmp_with_shift(a, b) * a.sign
     ELSE decimal_abs_cmp(a.m, b.m) * a.sign

CmpCrashes(a, b) ==
  /\ a.sign = b.sign /\ Reach(a) = Reach(b) /\ a.n # b.n
  /\ a.n > 0 /\ b.n > 0
  /\ Divides0(a) \/ Divides0(b)

----------------------------------------------------------------------------
DecimalInit ==
  /\ d1 = Zero /\ d2 = Zero /\ d3 = Zero
  /\ op = "idle" /\ ret = "ok" /\ order = 0 /\ reuse = 0

(* Two literals, or the result and a literal on either side of it.         *)
Enter ==
  /\ op = "idle"
  /\ d1' \in Literals /\ d2' \in Literals
  /\ op' = "none"
  /\ UNCHANGED <<d3, ret, order, reuse>>
Reuse ==
  /\ op \notin {"idle", "none", "cmp"} /\ ret = "ok" /\ reuse < MaxReuse
  /\ \/ d1' = d3 /\ d2' \in Literals
     \/ d1' \in Literals /\ d2' = d3
  /\ op' = "none" /\ reuse' = reuse + 1
  /\ d3' = Zero
  /\ UNCHANGED <<ret, order>>

Computes(name, result) ==
  /\ op = "none"
  /\ op' = name
  /\ ret' = result.ret /\ d3' = result.d
  /\ UNCHANGED <<d1, d2, order, reuse>>

Add == Computes("add", decimal_add_sub(d1, d2, TRUE, d3))
Sub == Computes("sub", decimal_add_sub(d1, d2, FALSE, d3))
Mul == Computes("mul", decimal_mul(d1, d2, d3))
Div == \E stale \in Stale : Computes("div", decimal_div(d1, d2, stale, d3))
Cmp ==
  /\ op = "none"
  /\ op' = "cmp"
  /\ ret' = IF CmpCrashes(d1, d2) THEN "crash" ELSE "ok"
  /\ order' = IF CmpCrashes(d1, d2) THEN 0 ELSE decimal_cmp(d1, d2)
  /\ UNCHANGED <<d1, d2, d3, reuse>>

DecimalNext == Enter \/ Reuse \/ Add \/ Sub \/ Mul \/ Div \/ Cmp
DecimalSpec == DecimalInit /\ [][DecimalNext]_decimalVars
============================================================================
